---------------------------- MODULE Spec2Model ----------------------------
(***************************************************************************)
(* A model of the ELF log parsing engine of src/MDCBR/elf/elf_parser.py.   *)
(*                                                                         *)
(* Text is modelled one character per element: a string is a sequence of   *)
(* one-character strings, a line list is a sequence of such sequences, a   *)
(* dict is a function whose domain is its key set.  Each specification     *)
(* below drives one part of the engine:                                    *)
(*   Spec          _parse_raw_sections (the segmenter)                     *)
(*   SpecFacade    get_section on a constructed parser                     *)
(*   SpecGeneral   _parse_general_section                                  *)
(*   SpecTable     _parse_table                                            *)
(*   SpecStack     _parse_call_stack_information_section                   *)
(*   SpecNetwork   _parse_network_section                                  *)
(*   SpecSanitize  the label pipeline of _parse_general_section            *)
(*   SpecConstruct ELFLogParser.__init__, with the parsers it calls         *)
(*   SpecWorkers   two constructions running at the same time               *)
(*   SpecAccess    the accessors of a constructed parser                    *)
(*   SpecRegistry  the label pipeline run on the names of the registry      *)
(*   SpecAnalysis  ELFAnalysis.perform_stack_trace_assessment               *)
(*                 (src/MDCBR/elf/elf_analysis.py)                          *)
(***************************************************************************)
EXTENDS Integers, Sequences, FiniteSets, TLC

VARIABLES
    pc,                    \* position of the running routine
    raised,                \* the exception that left the routine, or NoException
    contents,              \* self._contents: the input lines read so far
    sections,              \* _parse_raw_sections: local dict under construction
    current_section,       \* _parse_raw_sections: local current_section
    raw_sections,          \* self._raw_sections
    parsed_sections,       \* self._parsed_sections
    call,                  \* arguments of the running/last get_section call
    result,                \* value returned by the last finished routine
    section,               \* section a section parser works on
    raw_data,              \* section parser: local raw_data
    index,                 \* number of lines the running loop has consumed
    parsed_data,           \* _parse_table / call stack parser: local parsed_data
    header_delimiter_row,  \* _parse_table: local header_delimiter_row
    table_delimiter_count, \* call stack parser: local table_delimiter_count
    temp_data,             \* _parse_network_section: local temp_data
    number_of_interfaces,  \* _parse_network_section: local number_of_interfaces
    data_dict,             \* _parse_general_section: local data_dict
    label,                 \* label pipeline: match.group(ATTRIBUTE)
    attribute,             \* label pipeline: local attribute
    passes,                \* label pipeline: labels run through it so far
    log_file,              \* __init__: argument log_file
    binary_content,        \* __init__: argument binary_content
    attributes,            \* names of the attributes assigned on the instance
    definitions,           \* ELFDataTuples.definitions[...][named_tuple] (class level)
    workers,               \* concurrent constructions: position and tuples read
    data_struct,           \* ELFAnalysis.data_struct: the defects, in dict order
    call_stacks            \* ELFAnalysis.call_stacks

vars ==
    <<pc, raised, contents, sections, current_section, raw_sections,
      parsed_sections, call, result, section, raw_data, index, parsed_data,
      header_delimiter_row, table_delimiter_count, temp_data,
      number_of_interfaces, data_dict, label, attribute, passes, log_file,
      binary_content, attributes, definitions, workers, data_struct,
      call_stacks>>

segmenter_vars ==
    <<contents, sections, current_section>>

facade_vars ==
    <<raw_sections, parsed_sections, call>>

parser_vars ==
    <<section, raw_data, index, parsed_data, header_delimiter_row,
      table_delimiter_count, temp_data, number_of_interfaces, data_dict>>

sanitize_vars ==
    <<label, attribute, passes>>

construct_vars ==
    <<log_file, binary_content, attributes, definitions, workers>>

analysis_vars ==
    <<data_struct, call_stacks>>

\* The parts of the state a specification does not drive stay as they are
\* before the routine that owns them is entered.
SegmenterIdle ==
    /\ contents = <<>>
    /\ sections = <<>>
    /\ current_section = <<>>

ParserIdle ==
    /\ section = <<>>
    /\ raw_data = <<>>
    /\ index = 0
    /\ parsed_data = <<>>
    /\ header_delimiter_row = 0
    /\ table_delimiter_count = 0
    /\ temp_data = <<>>
    /\ number_of_interfaces = 0
    /\ data_dict = <<>>

SanitizeIdle ==
    /\ label = <<>>
    /\ attribute = <<>>
    /\ passes = 0

ConstructIdle ==
    /\ log_file = <<>>
    /\ binary_content = <<>>
    /\ attributes = {}
    /\ definitions = <<>>
    /\ workers = <<>>

AnalysisIdle ==
    /\ data_struct = <<>>
    /\ call_stacks = <<>>

-----------------------------------------------------------------------------
(* Characters and strings.                                                 *)

\* Python's None; no string the engine stores in its place is empty.
None ==
    <<>>

NoException ==
    [type |-> "none", args |-> <<>>]

Exception(type, args) ==
    [type |-> type, args |-> args]

UpperCase ==
    <<"A", "B", "C", "D", "E", "F", "G", "H", "I", "J", "K", "L", "M",
      "N", "O", "P", "Q", "R", "S", "T", "U", "V", "W", "X", "Y", "Z">>

LowerCase ==
    <<"a", "b", "c", "d", "e", "f", "g", "h", "i", "j", "k", "l", "m",
      "n", "o", "p", "q", "r", "s", "t", "u", "v", "w", "x", "y", "z">>

Digits ==
    {"0", "1", "2", "3", "4", "5", "6", "7", "8", "9"}

\* str.strip() with no argument and the pattern \s: ASCII white space.
WhiteSpace ==
    {" ", "\t", "\n", "\r", "\f"}

\* The pattern \w (\d is part of it).
WordChars ==
    {UpperCase[i] : i \in 1..26} \cup {LowerCase[i] : i \in 1..26}
        \cup Digits \cup {"_"}

Max(S) ==
    CHOOSE x \in S : \A y \in S : y <= x

Min(S) ==
    CHOOSE x \in S : \A y \in S : x <= y

Range(s) ==
    {s[i] : i \in 1..Len(s)}

\* The strings over alphabet of length 0..n.
StringsUpTo(alphabet, n) ==
    UNION {[1..k -> alphabet] : k \in 0..n}

\* The strings of ss one after the other; the two halves of ss are joined
\* so that a long list is not a deep recursion.
RECURSIVE Concat(_)
Concat(ss) ==
    IF ss = <<>> THEN <<>>
    ELSE IF Len(ss) = 1 THEN ss[1]
    ELSE LET half == Len(ss) \div 2
         IN  Concat(SubSeq(ss, 1, half)) \o Concat(SubSeq(ss, half + 1, Len(ss)))

\* str.lower(), character by character.
LowerChar(c) ==
    IF \E i \in 1..26 : UpperCase[i] = c
    THEN LowerCase[CHOOSE i \in 1..26 : UpperCase[i] = c]
    ELSE c

Lower(s) ==
    [i \in 1..Len(s) |-> LowerChar(s[i])]

\* str.strip(chars): drop the characters of chars from both ends.
StripChars(s, chars) ==
    LET keep == {i \in 1..Len(s) : s[i] \notin chars}
    IN  IF keep = {} THEN <<>> ELSE SubSeq(s, Min(keep), Max(keep))

\* str.strip()
Strip(s) ==
    StripChars(s, WhiteSpace)

\* Only the right end stripped: str.rstrip().
RStrip(s) ==
    LET keep == {i \in 1..Len(s) : s[i] \notin WhiteSpace}
    IN  IF keep = {} THEN <<>> ELSE SubSeq(s, 1, Max(keep))

\* str.split(sep) for a one-character sep: the pieces between the separators,
\* empty pieces included; a string without sep is its own single piece.
Split(s, sep) ==
    LET cuts  == {i \in 1..Len(s) : s[i] = sep}
        bound == <<0>> \o [k \in 1..Cardinality(cuts) |->
                     CHOOSE i \in cuts : Cardinality({j \in cuts : j < i}) = k - 1]
                 \o <<Len(s) + 1>>
    IN  [k \in 1..(Cardinality(cuts) + 1) |->
            SubSeq(s, bound[k] + 1, bound[k + 1] - 1)]

\* re.sub(r'\s+', char, string): every maximal run of white space becomes
\* char (a string).
RECURSIVE SubWhiteSpaceRuns(_, _)
SubWhiteSpaceRuns(s, char) ==
    IF s = <<>> THEN <<>>
    ELSE IF Head(s) \in WhiteSpace
         THEN LET rest == Tail(s)
                  skip == IF \E i \in 1..Len(rest) : rest[i] \notin WhiteSpace
                          THEN Min({i \in 1..Len(rest) : rest[i] \notin WhiteSpace}) - 1
                          ELSE Len(rest)
              IN  char \o SubWhiteSpaceRuns(SubSeq(rest, skip + 1, Len(rest)), char)
         ELSE <<Head(s)>> \o SubWhiteSpaceRuns(Tail(s), char)

\* ELFLogParser._replace_space_with_char
replace_space_with_char(string, char) ==
    SubWhiteSpaceRuns(string, char)

\* str.join: the pieces with sep between them.
Join(pieces, sep) ==
    Concat([i \in 1..(2 * Len(pieces) - 1) |->
               IF i % 2 = 1 THEN pieces[(i + 1) \div 2] ELSE sep])

\* The elements of s that satisfy keep, where keep is a set of indices.
RECURSIVE Select(_, _)
Select(s, keep) ==
    IF keep = {} THEN <<>>
    ELSE LET i == Min(keep) IN <<s[i]>> \o Select(s, keep \ {i})

-----------------------------------------------------------------------------
(* The schema registry: ELFLogSections and ELFDataTuples.                  *)

\* ELFLogSections: the heading text of each known section, one character per element.
APPLICATION ==
    <<"A", "p", "p", "l", "i", "c", "a", "t", "i", "o", "n">>
EXCEPTION ==
    <<"E", "x", "c", "e", "p", "t", "i", "o", "n">>
USER ==
    <<"U", "s", "e", "r">>
ACTIVE_CONTROLS ==
    <<"A", "c", "t", "i", "v", "e", " ", "C", "o", "n", "t", "r", "o", "l", "s">>
COMPUTER ==
    <<"C", "o", "m", "p", "u", "t", "e", "r">>
OPERATING_SYSTEM ==
    <<"O", "p", "e", "r", "a", "t", "i", "n", "g", " ", "S", "y", "s", "t", "e", "m">>
NETWORK ==
    <<"N", "e", "t", "w", "o", "r", "k">>
CALL_STACK_INFORMATION ==
    <<"C", "a", "l", "l", " ", "S", "t", "a", "c", "k", " ", "I", "n", "f", "o", "r", "m", "a", "t", "i", "o", "n">>
MODULES ==
    <<"M", "o", "d", "u", "l", "e", "s", " ", "I", "n", "f", "o", "r", "m", "a", "t", "i", "o", "n">>
PROCESSES_INFORMATION ==
    <<"P", "r", "o", "c", "e", "s", "s", "e", "s", " ", "I", "n", "f", "o", "r", "m", "a", "t", "i", "o", "n">>
ASSEMBLER_INFORMATION ==
    <<"A", "s", "s", "e", "m", "b", "l", "e", "r", " ", "I", "n", "f", "o", "r", "m", "a", "t", "i", "o", "n">>
REGISTERS ==
    <<"R", "e", "g", "i", "s", "t", "e", "r", "s">>

\* dataclasses.fields order of ELFLogSections.
SectionList ==
    <<APPLICATION, EXCEPTION, USER, ACTIVE_CONTROLS, COMPUTER, OPERATING_SYSTEM, NETWORK, CALL_STACK_INFORMATION, MODULES, PROCESSES_INFORMATION, ASSEMBLER_INFORMATION, REGISTERS>>

Sections ==
    {SectionList[i] : i \in 1..Len(SectionList)}

\* ELFDataTuples.definitions[section][elements]: the ordered field list.
elements(sec) ==
    CASE sec = CALL_STACK_INFORMATION ->
         <<<<"m", "e", "t", "h", "o", "d", "s">>,
           <<"d", "e", "t", "a", "i", "l", "s">>,
           <<"s", "t", "a", "c", "k">>,
           <<"a", "d", "d", "r", "e", "s", "s">>,
           <<"m", "o", "d", "u", "l", "e">>,
           <<"o", "f", "f", "s", "e", "t">>,
           <<"u", "n", "i", "t">>,
           <<"c", "l", "a", "s", "s", "n", "a", "m", "e">>,
           <<"p", "r", "o", "c", "e", "d", "u", "r", "e">>,
           <<"l", "i", "n", "e">>>>
      [] sec = EXCEPTION ->
         <<<<"d", "a", "t", "e">>,
           <<"a", "d", "d", "r", "e", "s", "s">>,
           <<"m", "o", "d", "u", "l", "e", "_", "n", "a", "m", "e">>,
           <<"m", "o", "d", "u", "l", "e", "_", "v", "e", "r", "s", "i", "o", "n">>,
           <<"t", "y", "p", "e", "_">>,
           <<"m", "e", "s", "s", "a", "g", "e">>,
           <<"i", "d", "_">>,
           <<"s", "e", "n", "t">>>>
      [] sec = ACTIVE_CONTROLS ->
         <<<<"f", "o", "r", "m", "_", "c", "l", "a", "s", "s">>,
           <<"f", "o", "r", "m", "_", "t", "e", "x", "t">>,
           <<"c", "o", "n", "t", "r", "o", "l", "_", "c", "l", "a", "s", "s">>,
           <<"c", "o", "n", "t", "r", "o", "l", "_", "t", "e", "x", "t">>>>
      [] sec = COMPUTER ->
         <<<<"n", "a", "m", "e">>,
           <<"t", "o", "t", "a", "l", "_", "m", "e", "m", "o", "r", "y">>,
           <<"f", "r", "e", "e", "_", "m", "e", "m", "o", "r", "y">>,
           <<"t", "o", "t", "a", "l", "_", "d", "i", "s", "k">>,
           <<"f", "r", "e", "e", "_", "d", "i", "s", "k">>,
           <<"s", "y", "s", "t", "e", "m", "_", "u", "p", "_", "t", "i", "m", "e">>,
           <<"p", "r", "o", "c", "e", "s", "s", "o", "r">>,
           <<"d", "i", "s", "p", "l", "a", "y", "_", "m", "o", "d", "e">>,
           <<"d", "i", "s", "p", "l", "a", "y", "_", "d", "p", "i">>,
           <<"v", "i", "d", "e", "o", "_", "c", "a", "r", "d">>,
           <<"v", "i", "r", "t", "u", "a", "l", "_", "m", "a", "c", "h", "i", "n", "e">>>>
      [] sec = USER ->
         <<<<"i", "d", "_">>,
           <<"n", "a", "m", "e">>>>
      [] sec = APPLICATION ->
         <<<<"s", "t", "a", "r", "t", "_", "d", "a", "t", "e">>,
           <<"n", "a", "m", "e", "_", "d", "e", "s", "c", "r", "i", "p", "t", "i", "o", "n">>,
           <<"v", "e", "r", "s", "i", "o", "n", "_", "n", "u", "m", "b", "e", "r">>,
           <<"p", "a", "r", "a", "m", "e", "t", "e", "r", "s">>,
           <<"c", "o", "m", "p", "i", "l", "a", "t", "i", "o", "n", "_", "d", "a", "t", "e">>,
           <<"u", "p", "_", "t", "i", "m", "e">>>>
      [] sec = OPERATING_SYSTEM ->
         <<<<"t", "y", "p", "e", "_">>,
           <<"b", "u", "i", "l", "d">>,
           <<"u", "p", "d", "a", "t", "e">>,
           <<"n", "o", "n", "_", "u", "n", "i", "c", "o", "d", "e", "_", "l", "a", "n", "g", "u", "a", "g", "e">>,
           <<"c", "h", "a", "r", "s", "e", "t", "_", "a", "c", "p">>>>
      [] sec = MODULES ->
         <<<<"h", "a", "n", "d", "l", "e">>,
           <<"n", "a", "m", "e">>,
           <<"d", "e", "s", "c", "r", "i", "p", "t", "i", "o", "n">>,
           <<"v", "e", "r", "s", "i", "o", "n">>,
           <<"s", "i", "z", "e">>,
           <<"m", "o", "d", "i", "f", "i", "e", "d">>,
           <<"p", "a", "t", "h">>>>
      [] sec = PROCESSES_INFORMATION ->
         <<<<"i", "d", "_">>,
           <<"n", "a", "m", "e">>,
           <<"d", "e", "s", "c", "r", "i", "p", "t", "i", "o", "n">>,
           <<"v", "e", "r", "s", "i", "o", "n">>,
           <<"m", "e", "m", "o", "r", "y">>,
           <<"p", "r", "i", "o", "r", "i", "t", "y">>,
           <<"t", "h", "r", "e", "a", "d", "s">>,
           <<"p", "a", "t", "h">>>>
      [] sec = ASSEMBLER_INFORMATION ->
         <<>>
      [] sec = REGISTERS ->
         <<>>
      [] sec = NETWORK ->
         <<<<"i", "p", "_", "a", "d", "d", "r", "e", "s", "s">>,
           <<"s", "u", "b", "m", "a", "s", "k">>,
           <<"g", "a", "t", "e", "w", "a", "y">>,
           <<"d", "n", "s", "_", "1">>,
           <<"d", "n", "s", "_", "2">>,
           <<"d", "h", "c", "p">>>>

\* The reserved names of the Exception section given for every section.
reserved_names_of_exception(sec) ==
    {<<"t", "y", "p", "e">>, <<"i", "d">>}

\* ELFDataTuples.definitions[section][reserved_names].
reserved_names(sec) ==
    CASE sec = CALL_STACK_INFORMATION -> {}
      [] sec = EXCEPTION -> {<<"t", "y", "p", "e">>, <<"i", "d">>}
      [] sec = ACTIVE_CONTROLS -> {}
      [] sec = COMPUTER -> {}
      [] sec = USER -> {<<"i", "d">>}
      [] sec = APPLICATION -> {}
      [] sec = OPERATING_SYSTEM -> {<<"t", "y", "p", "e">>}
      [] sec = MODULES -> {}
      [] sec = PROCESSES_INFORMATION -> {<<"i", "d">>}
      [] sec = ASSEMBLER_INFORMATION -> {}
      [] sec = REGISTERS -> {}
      [] sec = NETWORK -> {}

\* The grave accent, which a string literal of this language cannot hold.
BackTick ==
    "GRAVE"

\* ELFDataTuples.illegal_varible_name_characters, in list order.
illegal_varible_name_characters ==
    <<"#", "/", "-", ".", "$", "\\", "@", "*", "(", ")", "&", "^", "<", ">", "?",
      ",", "!", "'", "~", BackTick, "[", "]", "{", "}", "|", "+", "=", ":", ";">>

MaxLines == 4

MaxBodyLen == 2

MaxLabelLen == 3

MaxPasses == 2

MaxGeneralLines == 3

MaxTableLines == 4

MaxStackLines == 5

MaxInterfaces == 2

MaxPieces == 4

MaxDefects == 2

MaxFrames == 2

\* The canonical name of a section: re.sub(r'\s+', '_', name).lower()
\* (_parse_elf_sections) or _replace_space_with_char(name, "_").lower()
\* (get_section).
Canonical(name) ==
    Lower(replace_space_with_char(name, <<"_">>))

-----------------------------------------------------------------------------
(* The segmenter: ELFLogParser._parse_raw_sections.                        *)

\* LOG_SECTION_DELIMITER = ^(?P<section_name>\w[\w\d\s]+):[\r\n]*
\* The end of the longest run of [\w\d\s] that starts at the second
\* character; the class cannot match ':', so the match, if any, takes the
\* whole run.
SectionNameEnd(line) ==
    Max({j \in 1..Len(line) :
            \A k \in 2..j : line[k] \in WordChars \cup WhiteSpace})

\* LOG_SECTION_DELIMITER.search(line) is not None
IsSectionHeader(line) ==
    /\ Len(line) >= 3
    /\ line[1] \in WordChars
    /\ SectionNameEnd(line) >= 2
    /\ SectionNameEnd(line) < Len(line)
    /\ line[SectionNameEnd(line) + 1] = ":"

\* match.group('section_name')
SectionName(line) ==
    SubSeq(line, 1, SectionNameEnd(line))

\* sections[key] = value on a dict
DictPut(d, key, value) ==
    (key :> value) @@ d

\* The loop body with a header that is seen again keeping the lines it
\* already holds (a guard `if current_section not in sections` around the
\* reset).
ParseRawSectionsLineKeepingRepeated(line) ==
    /\ pc = "segmenting"
    /\ Len(contents) < MaxLines
    /\ contents' = Append(contents, line)
    /\ IF IsSectionHeader(line)
       THEN /\ current_section' = SectionName(line)
            /\ sections' = IF SectionName(line) \in DOMAIN sections
                           THEN sections
                           ELSE DictPut(sections, SectionName(line), <<>>)
       ELSE IF current_section # None
       THEN /\ sections' = DictPut(sections, current_section,
                                   Append(sections[current_section], Strip(line)))
            /\ UNCHANGED current_section
       ELSE UNCHANGED <<sections, current_section>>
    /\ UNCHANGED <<pc, raised, raw_sections, parsed_sections, call, result>>
    /\ UNCHANGED <<parser_vars, sanitize_vars>>
    /\ UNCHANGED construct_vars
    /\ UNCHANGED analysis_vars

\* The loop body with a header line kept as the first line of the section
\* it opens.
ParseRawSectionsLineStoringHeader(line) ==
    /\ pc = "segmenting"
    /\ Len(contents) < MaxLines
    /\ contents' = Append(contents, line)
    /\ IF IsSectionHeader(line)
       THEN /\ current_section' = SectionName(line)
            /\ sections' = DictPut(sections, SectionName(line), <<Strip(line)>>)
       ELSE IF current_section # None
       THEN /\ sections' = DictPut(sections, current_section,
                                   Append(sections[current_section], Strip(line)))
            /\ UNCHANGED current_section
       ELSE UNCHANGED <<sections, current_section>>
    /\ UNCHANGED <<pc, raised, raw_sections, parsed_sections, call, result>>
    /\ UNCHANGED <<parser_vars, sanitize_vars>>
    /\ UNCHANGED construct_vars
    /\ UNCHANGED analysis_vars

\* One pass of the loop body of _parse_raw_sections over the next line.
ParseRawSectionsLine(line) ==
    /\ pc = "segmenting"
    /\ Len(contents) < MaxLines
    /\ contents' = Append(contents, line)
    /\ IF IsSectionHeader(line)
       THEN /\ current_section' = SectionName(line)
            /\ sections' = DictPut(sections, SectionName(line), <<>>)
       ELSE IF current_section # None
       THEN /\ sections' = DictPut(sections, current_section,
                                   Append(sections[current_section], Strip(line)))
            /\ UNCHANGED current_section
       ELSE UNCHANGED <<sections, current_section>>
    /\ UNCHANGED <<pc, raised, raw_sections, parsed_sections, call, result>>
    /\ UNCHANGED <<parser_vars, sanitize_vars>>
    /\ UNCHANGED construct_vars
    /\ UNCHANGED analysis_vars

\* The loop is over: return sections, stored as self._raw_sections.
ParseRawSectionsReturn ==
    /\ pc = "segmenting"
    /\ raw_sections' = sections
    /\ pc' = "segmented"
    /\ UNCHANGED <<raised, segmenter_vars, parsed_sections, call, result>>
    /\ UNCHANGED <<parser_vars, sanitize_vars>>
    /\ UNCHANGED construct_vars
    /\ UNCHANGED analysis_vars

\* The lines a log may hold: every string of at most MaxBodyLen characters
\* over BodyAlphabet, header lines, and near misses of a header.
BodyAlphabet ==
    {"a", " "}

HeaderLines ==
    { <<"a", "b", ":">>,                 \* ab:
      <<"a", " ", ":">>,                 \* "a :" names the section "a "
      <<"A", " ", "b", ":">>,            \* A b:
      <<"a", "b", ":", " ", "a">> }      \* ab: a

NearHeaderLines ==
    { <<"a", ":">>,                      \* one-character name
      <<" ", "a", "b", ":">>,            \* indented
      <<"a", "-", "b", ":">> }           \* a character outside [\w\d\s]

InputLines ==
    StringsUpTo(BodyAlphabet, MaxBodyLen) \cup HeaderLines \cup NearHeaderLines

Init ==
    /\ pc = "segmenting"
    /\ raised = NoException
    /\ contents = <<>>
    /\ sections = <<>>
    /\ current_section = None
    /\ raw_sections = <<>>
    /\ parsed_sections = <<>>
    /\ call = <<>>
    /\ result = <<>>
    /\ ParserIdle
    /\ SanitizeIdle
    /\ ConstructIdle
    /\ AnalysisIdle

Next ==
    \/ \E line \in InputLines : ParseRawSectionsLine(line)
    \/ ParseRawSectionsReturn

Spec ==
    Init /\ [][Next]_vars

-----------------------------------------------------------------------------
(* Claims about the segmenter.                                             *)

\* The index in contents of the last header line that names the section.
LastHeaderOf(name) ==
    Max({i \in 1..Len(contents) :
            IsSectionHeader(contents[i]) /\ SectionName(contents[i]) = name})

\* The index of the first header line after line i, or one past the input.
NextHeaderAfter(i) ==
    Min({j \in (i + 1)..Len(contents) : IsSectionHeader(contents[j])}
            \cup {Len(contents) + 1})

\* The input lines between the section's header and the next header or the
\* end of the input, in order, each with only its trailing white space
\* removed.
BodyTrailingTrimmed(name) ==
    LET h == LastHeaderOf(name)
    IN  [k \in 1..(NextHeaderAfter(h) - h - 1) |-> RStrip(contents[h + k])]

\* The same lines, each with its leading and its trailing white space removed.
BodyTrimmed(name) ==
    LET h == LastHeaderOf(name)
    IN  [k \in 1..(NextHeaderAfter(h) - h - 1) |-> Strip(contents[h + k])]

HeaderNamesSeen ==
    {SectionName(contents[i]) :
        i \in {j \in 1..Len(contents) : IsSectionHeader(contents[j])}}

\* C1 as the specification states it: every stored line list is the body of
\* its section with only trailing white space removed, so leading white
\* space is preserved.
C1_TrailingOnly ==
    /\ DOMAIN sections = HeaderNamesSeen
    /\ \A name \in DOMAIN sections : sections[name] = BodyTrailingTrimmed(name)

\* C1 (amended): every stored line list equals, in order, the input lines
\* between the section's header and the next header or the end of the input,
\* each with both its leading and its trailing white space removed.
C1_SegmentationKeepsStrippedBody ==
    /\ DOMAIN sections = HeaderNamesSeen
    /\ \A name \in DOMAIN sections : sections[name] = BodyTrimmed(name)

\* A section holds a line that had white space on both sides, after a header
\* and before another one.
C1_Witness ==
    /\ pc = "segmented"
    /\ \E name \in DOMAIN raw_sections :
          /\ Len(raw_sections[name]) >= 1
          /\ LastHeaderOf(name) + 1 < NextHeaderAfter(LastHeaderOf(name))
          /\ NextHeaderAfter(LastHeaderOf(name)) <= Len(contents)
          /\ \E i \in 1..Len(contents) :
                /\ i = LastHeaderOf(name) + 1
                /\ contents[i] # Strip(contents[i])
                /\ Head(contents[i]) \in WhiteSpace
                /\ raw_sections[name][1] = Strip(contents[i])
                /\ raw_sections[name][1] # <<>>

-----------------------------------------------------------------------------
(* The facade: ELFLogParser.get_section on a constructed parser.           *)

\* get_section hands a stored value back unread, so a stored value is
\* represented by the view and the key it is stored under.
StoredValue(view, key) ==
    [view |-> view, key |-> key]

Returned(value) ==
    [raised |-> NoException, value |-> value]

Raised(type, args) ==
    [raised |-> Exception(type, args), value |-> None]

\* get_section with the canonical form tried before the name as given.
get_section_canonical_first(section_name, raw) ==
    LET data  == IF raw THEN raw_sections ELSE parsed_sections
        canon == Canonical(section_name)
        name  == IF canon \in DOMAIN data THEN canon ELSE section_name
    IN  IF name \in DOMAIN data
        THEN Returned(data[name])
        ELSE Raised("SectionNotFound", <<name>>)

\* get_section giving an empty list for a name that is no key (data.get
\* with a default in the place of the raise).
get_section_or_empty(section_name, raw) ==
    LET data == IF raw THEN raw_sections ELSE parsed_sections
        name == IF section_name \notin DOMAIN data
                THEN Canonical(section_name)
                ELSE section_name
    IN  IF name \in DOMAIN data
        THEN Returned(data[name])
        ELSE Returned(<<>>)

\* ELFLogParser.get_section: the name as given if it is a key of the selected
\* view, else its canonical form; SectionNotFound carries the local
\* section_name, which by then holds the canonical form.
get_section(section_name, raw) ==
    LET data == IF raw THEN raw_sections ELSE parsed_sections
        name == IF section_name \notin DOMAIN data
                THEN Canonical(section_name)
                ELSE section_name
    IN  IF name \in DOMAIN data
        THEN Returned(data[name])
        ELSE Raised("SectionNotFound", <<name>>)

\* get_section taking the entry out of the selected view as it hands it
\* back (data.pop in the place of data.get).
GetSectionPopping(section_name, raw) ==
    /\ pc \in {"constructed", "returned", "raised"}
    /\ call' = [section_name |-> section_name, raw |-> raw]
    /\ LET r    == get_section(section_name, raw)
           data == IF raw THEN raw_sections ELSE parsed_sections
           name == IF section_name \notin DOMAIN data
                   THEN Canonical(section_name) ELSE section_name
           rest == [k \in DOMAIN data \ {name} |-> data[k]]
       IN  /\ raised' = r.raised
           /\ result' = r.value
           /\ pc' = IF r.raised = NoException THEN "returned" ELSE "raised"
           /\ raw_sections' = IF raw THEN rest ELSE raw_sections
           /\ parsed_sections' = IF raw THEN parsed_sections ELSE rest
    /\ UNCHANGED <<segmenter_vars, parser_vars, sanitize_vars>>
    /\ UNCHANGED construct_vars
    /\ UNCHANGED analysis_vars

\* A caller's get_section(section_name, raw) on the constructed parser.
GetSection(section_name, raw) ==
    /\ pc \in {"constructed", "returned", "raised"}
    /\ call' = [section_name |-> section_name, raw |-> raw]
    /\ LET r == get_section(section_name, raw)
       IN  /\ raised' = r.raised
           /\ result' = r.value
           /\ pc' = IF r.raised = NoException THEN "returned" ELSE "raised"
    /\ UNCHANGED <<raw_sections, parsed_sections>>
    /\ UNCHANGED <<segmenter_vars, parser_vars, sanitize_vars>>
    /\ UNCHANGED construct_vars
    /\ UNCHANGED analysis_vars

\* The sections whose schema has fields: their parsers read the raw section
\* through get_section(section, raw=True) while the parser is constructed.
SectionsWithFields ==
    {s \in Sections : elements(s) # <<>>}

FOO_BAR ==
    <<"F", "o", "o", " ", "B", "a", "r">>

\* Headers a log may or may not hold besides those construction needs.
OptionalHeaders ==
    {REGISTERS, FOO_BAR, Canonical(FOO_BAR),
     Canonical(EXCEPTION)}

\* Sections whose header a log may spell in the canonical form instead.
EitherSpelling ==
    {CALL_STACK_INFORMATION, USER}

\* The key sets of self._raw_sections after a construction that succeeded:
\* every section with fields is found by get_section(section, raw=True),
\* under its heading or under its canonical form.
ConstructedRawKeys ==
    {((SectionsWithFields \ canon) \cup {Canonical(s) : s \in canon}) \cup extra :
        canon \in SUBSET EitherSpelling, extra \in SUBSET OptionalHeaders}

\* The names callers ask for.
RequestedNames ==
    Sections \cup {Canonical(s) : s \in Sections}
        \cup {FOO_BAR, Canonical(FOO_BAR),
              <<"F", "O", "O", " ", " ", "B", "A", "R">>,
              <<"Z", "e", "d">>}

\* _parse_elf_sections: one entry per section of ELFLogSections, under the
\* canonical name; every section has a _parse_<name>_section method.
InitFacade ==
    /\ pc = "constructed"
    /\ raised = NoException
    /\ \E keys \in ConstructedRawKeys :
          raw_sections = [k \in keys |-> StoredValue("raw", k)]
    /\ parsed_sections = [k \in {Canonical(s) : s \in Sections} |->
                             StoredValue("parsed", k)]
    /\ call = <<>>
    /\ result = <<>>
    /\ SegmenterIdle
    /\ ParserIdle
    /\ SanitizeIdle
    /\ ConstructIdle
    /\ AnalysisIdle

NextFacade ==
    \E section_name \in RequestedNames, raw \in BOOLEAN :
        GetSection(section_name, raw)

SpecFacade ==
    InitFacade /\ [][NextFacade]_vars

-----------------------------------------------------------------------------
(* Claims about the facade.                                                *)

\* The view the last call selected.
SelectedView ==
    IF call.raw THEN raw_sections ELSE parsed_sections

Called ==
    pc \in {"returned", "raised"}

\* C2: a lookup of a name that is a key of the selected view neither as given
\* nor in canonical form fails with SectionNotFound carrying the name exactly
\* as the caller passed it.
C2_NotFoundCarriesRequestedName ==
    (/\ Called
     /\ call.section_name \notin DOMAIN SelectedView
     /\ Canonical(call.section_name) \notin DOMAIN SelectedView)
        => /\ pc = "raised"
           /\ raised = Exception("SectionNotFound", <<call.section_name>>)

\* The failing lookup of a name that its canonical form differs from.
C2_Witness ==
    /\ pc = "raised"
    /\ raised.type = "SectionNotFound"
    /\ call.section_name = FOO_BAR
    /\ raised.args = <<Canonical(FOO_BAR)>>

\* The sections present in a view, each as <<heading, key, value>>: the raw
\* view stores a section under its heading as written, the parsed view under
\* the canonical form of its heading.
PresentSections(raw) ==
    IF raw
    THEN {<<k, k, raw_sections[k]>> : k \in DOMAIN raw_sections}
    ELSE {<<s, Canonical(s), parsed_sections[Canonical(s)]>> :
             s \in {t \in Sections : Canonical(t) \in DOMAIN parsed_sections}}

\* The call asked for the section by the canonical form of its heading, and
\* that form is not the key of another section of the view.
AskedByCanonicalForm(p) ==
    /\ call.section_name = Canonical(p[1])
    /\ Canonical(p[1]) \in DOMAIN SelectedView => Canonical(p[1]) = p[2]

\* C3 as the specification states it: in both views a present section is
\* returned for its exact heading and for the canonical form of its heading.
C3_BothSpellingsInBothViews ==
    Called =>
        \A p \in PresentSections(call.raw) :
            /\ call.section_name = p[1] => pc = "returned" /\ result = p[3]
            /\ AskedByCanonicalForm(p) => pc = "returned" /\ result = p[3]

\* C3 (amended): a present section is returned for its exact heading in both
\* views and for the canonical form of its heading in the parsed view; in the
\* raw view, which is keyed by the heading as written, the canonical form of a
\* heading that is no key fails with SectionNotFound.  A name that is a key
\* is looked up as given; the canonical form is only the fallback.
C3_ExactThenCanonicalFallback ==
    Called =>
        /\ \A p \in PresentSections(call.raw) :
              /\ call.section_name = p[1] => pc = "returned" /\ result = p[3]
              /\ (AskedByCanonicalForm(p) /\ ~call.raw)
                    => pc = "returned" /\ result = p[3]
              /\ (AskedByCanonicalForm(p) /\ call.raw
                     /\ Canonical(p[1]) \notin DOMAIN raw_sections)
                    => pc = "raised" /\ raised.type = "SectionNotFound"
        /\ call.section_name \in DOMAIN SelectedView
              => pc = "returned" /\ result = SelectedView[call.section_name]

\* The parsed view returned a section for its exact heading, through the
\* fallback, while the raw view holds both a heading and its canonical form.
C3_Witness ==
    /\ pc = "returned"
    /\ ~call.raw
    /\ call.section_name = CALL_STACK_INFORMATION
    /\ call.section_name \notin DOMAIN parsed_sections
    /\ result = parsed_sections[Canonical(CALL_STACK_INFORMATION)]
    /\ {FOO_BAR, Canonical(FOO_BAR)} \subseteq DOMAIN raw_sections

-----------------------------------------------------------------------------
(* Labels: ELFDataTuples.remove_illegal_characters and the label pipeline  *)
(* of _parse_general_section.                                              *)

\* One-character patterns that re.sub cannot compile: re.error is raised.
UncompilablePatterns ==
    {"\\", "*", "(", ")", "?", "[", "+"}

\* The space re.sub puts in place of each match.
SPACE ==
    <<" ">>

\* re.sub(pattern, ' ', string) for a one-character pattern that compiles.
\* The character is used as a regular expression, not as a literal:
\*   .  matches every character but a newline;
\*   ^  matches the empty string at the start;
\*   $  matches the empty string at the end and before a final newline;
\*   |  is an alternation of two empty patterns, matching the empty string
\*      at every position;
\* every other character matches itself.
re_sub_space(pattern, string) ==
    CASE pattern = "." ->
           [i \in 1..Len(string) |-> IF string[i] = "\n" THEN "\n" ELSE " "]
      [] pattern = "^" ->
           SPACE \o string
      [] pattern = "$" ->
           IF string # <<>> /\ string[Len(string)] = "\n"
           THEN SubSeq(string, 1, Len(string) - 1) \o SPACE \o <<"\n">> \o SPACE
           ELSE string \o SPACE
      [] pattern = "|" ->
           SPACE \o Concat([i \in 1..Len(string) |-> <<string[i]>> \o SPACE])
      [] OTHER ->
           [i \in 1..Len(string) |-> IF string[i] = pattern THEN " " ELSE string[i]]

\* The loop of remove_illegal_characters over the characters still to do.
RECURSIVE SubEach(_, _)
SubEach(todo, string) ==
    IF todo = <<>> THEN string
    ELSE SubEach(Tail(todo), re_sub_space(Head(todo), string))

\* ELFDataTuples.remove_illegal_characters: re.sub for every illegal
\* character the string holds, in list order, then strip().
remove_illegal_characters(string) ==
    LET todo == Select(illegal_varible_name_characters,
                       {i \in 1..Len(illegal_varible_name_characters) :
                           illegal_varible_name_characters[i] \in Range(string)})
        bad  == {i \in 1..Len(todo) : todo[i] \in UncompilablePatterns}
    IN  IF bad # {}
        THEN Raised("re.error", <<todo[Min(bad)]>>)
        ELSE Returned(Strip(SubEach(todo, string)))

\* The test of line 613 inverted: the suffix goes to the names that are not
\* reserved.
suffix_unless_reserved(attr, reserved) ==
    IF attr \notin reserved THEN attr \o <<"_">> ELSE attr

\* Lines 613-614: an attribute that is one of the section's reserved names
\* gets an underscore as suffix.
suffix_if_reserved(attr, reserved) ==
    IF attr \in reserved THEN attr \o <<"_">> ELSE attr

\* Lines 608-615 as one function of the label and the reserved names.
sanitize_with(raw_label, reserved) ==
    LET first == remove_illegal_characters(Lower(Strip(raw_label)))
    IN  IF first.raised # NoException THEN first
        ELSE remove_illegal_characters(
                 suffix_if_reserved(
                     replace_space_with_char(first.value, <<"_">>), reserved))

\* Lines 608-615 for a section of the registry.
sanitize(raw_label, sec) ==
    sanitize_with(raw_label, reserved_names(sec))

\* Line 608: strip, lower, remove the illegal characters.
SanitizeRemoveIllegal ==
    /\ pc = "label"
    /\ LET r == remove_illegal_characters(Lower(Strip(label)))
       IN  /\ raised' = r.raised
           /\ attribute' = r.value
           /\ pc' = IF r.raised = NoException THEN "stripped" ELSE "raised"
    /\ UNCHANGED <<label, passes, section, result>>
    /\ UNCHANGED <<segmenter_vars, facade_vars>>
    /\ UNCHANGED <<raw_data, index, parsed_data, header_delimiter_row,
                   table_delimiter_count, temp_data, number_of_interfaces,
                   data_dict>>
    /\ UNCHANGED construct_vars
    /\ UNCHANGED analysis_vars

\* Line 609: white space to underscores.
SanitizeReplaceSpace ==
    /\ pc = "stripped"
    /\ attribute' = replace_space_with_char(attribute, <<"_">>)
    /\ pc' = "joined"
    /\ UNCHANGED <<raised, label, passes, section, result>>
    /\ UNCHANGED <<segmenter_vars, facade_vars>>
    /\ UNCHANGED <<raw_data, index, parsed_data, header_delimiter_row,
                   table_delimiter_count, temp_data, number_of_interfaces,
                   data_dict>>
    /\ UNCHANGED construct_vars
    /\ UNCHANGED analysis_vars

\* Lines 613-614: the reserved-name suffix.
SanitizeSuffix ==
    /\ pc = "joined"
    /\ attribute' = suffix_if_reserved(attribute, reserved_names(section))
    /\ pc' = "suffixed"
    /\ UNCHANGED <<raised, label, passes, section, result>>
    /\ UNCHANGED <<segmenter_vars, facade_vars>>
    /\ UNCHANGED <<raw_data, index, parsed_data, header_delimiter_row,
                   table_delimiter_count, temp_data, number_of_interfaces,
                   data_dict>>
    /\ UNCHANGED construct_vars
    /\ UNCHANGED analysis_vars

\* Line 615: remove the illegal characters again; the attribute is the key.
SanitizeRemoveIllegalAgain ==
    /\ pc = "suffixed"
    /\ LET r == remove_illegal_characters(attribute)
       IN  /\ raised' = r.raised
           /\ attribute' = r.value
           /\ pc' = IF r.raised = NoException THEN "sanitized" ELSE "raised"
    /\ UNCHANGED <<label, passes, section, result>>
    /\ UNCHANGED <<segmenter_vars, facade_vars>>
    /\ UNCHANGED <<raw_data, index, parsed_data, header_delimiter_row,
                   table_delimiter_count, temp_data, number_of_interfaces,
                   data_dict>>
    /\ UNCHANGED construct_vars
    /\ UNCHANGED analysis_vars

\* A later line of the log carries the sanitized name as its label: the
\* pipeline runs on its own output.
SanitizeOwnOutput ==
    /\ pc = "sanitized"
    /\ passes < MaxPasses
    /\ label' = attribute
    /\ passes' = passes + 1
    /\ pc' = "label"
    /\ UNCHANGED <<raised, attribute, section, result>>
    /\ UNCHANGED <<segmenter_vars, facade_vars>>
    /\ UNCHANGED <<raw_data, index, parsed_data, header_delimiter_row,
                   table_delimiter_count, temp_data, number_of_interfaces,
                   data_dict>>
    /\ UNCHANGED construct_vars
    /\ UNCHANGED analysis_vars

\* The sections _parse_general_section serves.
GeneralSections ==
    {EXCEPTION, ACTIVE_CONTROLS, COMPUTER, USER, APPLICATION, OPERATING_SYSTEM,
     REGISTERS, ASSEMBLER_INFORMATION}

LabelAlphabet ==
    {"i", "D", " ", "#", "_", "|", ".", "*"}

THREAD_ID_LABEL ==
    <<"T", "h", "r", "e", "a", "d", " ", "I", "d", " ", "#">>

LongLabels ==
    { <<"T", "y", "p", "e">>,
      <<"N", "a", "m", "e", "/", "D", "e", "s", "c">>,
      <<"a", "$">>,
      <<"^", "a">>,
      THREAD_ID_LABEL }

\* What match.group(ATTRIBUTE) can be: the lazy group ends before the white
\* space in front of the colon and starts after the white space behind the
\* ordinal.
Labels ==
    {l \in StringsUpTo(LabelAlphabet, MaxLabelLen) : Strip(l) = l} \cup LongLabels

\* The pipeline runs for the sections that have fields; the other two
\* return before their lines are read.
InitSanitize ==
    /\ pc = "label"
    /\ raised = NoException
    /\ label \in Labels
    /\ attribute = <<>>
    /\ passes = 1
    /\ section \in GeneralSections \cap SectionsWithFields
    /\ raw_data = <<>>
    /\ index = 0
    /\ parsed_data = <<>>
    /\ header_delimiter_row = 0
    /\ table_delimiter_count = 0
    /\ temp_data = <<>>
    /\ number_of_interfaces = 0
    /\ data_dict = <<>>
    /\ raw_sections = <<>>
    /\ parsed_sections = <<>>
    /\ call = <<>>
    /\ result = <<>>
    /\ SegmenterIdle
    /\ ConstructIdle
    /\ AnalysisIdle

NextSanitize ==
    \/ SanitizeRemoveIllegal
    \/ SanitizeReplaceSpace
    \/ SanitizeSuffix
    \/ SanitizeRemoveIllegalAgain
    \/ SanitizeOwnOutput

SpecSanitize ==
    InitSanitize /\ [][NextSanitize]_vars

-----------------------------------------------------------------------------
(* Claims about the label pipeline.                                        *)

\* The label lowercased, stripped of illegal characters, trimmed, white
\* space to underscores: the attribute as line 613 tests it.
LabelForm(raw_label) ==
    replace_space_with_char(
        remove_illegal_characters(Lower(Strip(raw_label))).value, <<"_">>)

\* The number of underscores a string ends with.
TrailingUnderscores(s) ==
    Len(s) - Max({i \in 0..Len(s) : i = 0 \/ s[i] # "_"})

THREAD_ID ==
    <<"t", "h", "r", "e", "a", "d", "_", "i", "d">>

C10_SanitizeIdempotent ==
    (pc = "sanitized" /\ passes >= 2) => attribute = label

\* A sanitized label went through the pipeline again.
C10_Witness ==
    /\ pc = "sanitized"
    /\ passes = 2
    /\ attribute # label

-----------------------------------------------------------------------------
(* Records and the key/value line pattern.                                 *)

\* data_tuple(**kwargs) for the namedtuple of a section: the namedtuple has
\* no defaults, so a keyword that is no field and a field without a keyword
\* both raise TypeError; a record is the mapping of its fields.
data_tuple(sec, kwargs) ==
    IF DOMAIN kwargs = Range(elements(sec))
    THEN Returned(kwargs)
    ELSE Raised("TypeError", <<sec>>)

\* dict(zip(keys, values)): paired by position, cut at the shorter one.
DictZip(keys, values) ==
    LET n == IF Len(keys) < Len(values) THEN Len(keys) ELSE Len(values)
    IN  [k \in {keys[i] : i \in 1..n} |->
            values[Max({i \in 1..n : keys[i] = k})]]

\* The end of the longest run of characters of set that starts at s[i]
\* (i - 1 when s[i] is not in set).
RunEnd(s, i, set) ==
    Max({j \in (i - 1)..Len(s) : \A k \in i..j : s[k] \in set})

NoMatch ==
    [matched |-> FALSE, attribute |-> <<>>, data |-> <<>>]

\* DATA_LINE_PATTERN = ^\s*\d+\.\d+\s+(?P<attribute>.*?)\s*:\s*(?P<data>.*)?
\* searched in line: an ordinal, white space, the lazy attribute up to the
\* white space before the first colon, the colon, white space, and the rest
\* of the line as data (the dot matches no newline).
data_line_match(line) ==
    LET a     == RunEnd(line, 1, WhiteSpace)
        b     == RunEnd(line, a + 1, Digits)
        c     == RunEnd(line, b + 2, Digits)
        d     == RunEnd(line, c + 1, WhiteSpace)
        colon == {i \in (d + 1)..Len(line) : line[i] = ":"}
    IN  IF \/ b < a + 1
           \/ b + 1 > Len(line)
           \/ line[b + 1] # "."
           \/ c < b + 2
           \/ d < c + 1
           \/ colon = {}
        THEN NoMatch
        ELSE LET col  == Min(colon)
                 attr == RStrip(SubSeq(line, d + 1, col - 1))
                 e    == RunEnd(line, col + 1, WhiteSpace)
                 nl   == {i \in (e + 1)..Len(line) : line[i] = "\n"}
                 stop == IF nl = {} THEN Len(line) ELSE Min(nl) - 1
             IN  IF "\n" \in Range(attr)
                 THEN NoMatch
                 ELSE [matched |-> TRUE, attribute |-> attr,
                       data |-> SubSeq(line, e + 1, stop)]

-----------------------------------------------------------------------------
(* The general key/value parser: ELFLogParser._parse_general_section.      *)

\* The entry with the raw section looked up before the test for a schema
\* without fields (lines 599 and 596-597 the other way round).
GeneralStartReadingFirst ==
    /\ pc = "general"
    /\ LET r == get_section(section, TRUE)
       IN  IF r.raised # NoException
           THEN /\ raised' = r.raised
                /\ pc' = "raised"
                /\ UNCHANGED <<result, raw_data>>
           ELSE IF elements(section) = <<>>
           THEN /\ result' = data_tuple(section, <<>>).value
                /\ raw_data' = Select([i \in 1..Len(r.value) |-> Strip(r.value[i])],
                                       {i \in 1..Len(r.value) : Strip(r.value[i]) # <<>>})
                /\ pc' = "returned"
                /\ UNCHANGED raised
           ELSE /\ raw_data' = Select([i \in 1..Len(r.value) |-> Strip(r.value[i])],
                                       {i \in 1..Len(r.value) : Strip(r.value[i]) # <<>>})
                /\ pc' = "general_loop"
                /\ UNCHANGED <<raised, result>>
    /\ UNCHANGED <<section, index, parsed_data, header_delimiter_row,
                   table_delimiter_count, temp_data, number_of_interfaces,
                   data_dict>>
    /\ UNCHANGED <<segmenter_vars, facade_vars, sanitize_vars>>
    /\ UNCHANGED construct_vars
    /\ UNCHANGED analysis_vars

\* Lines 591-599: no fields, an empty tuple at once; else the stripped,
\* non-blank lines of the raw section, which get_section looks up.
GeneralStart ==
    /\ pc = "general"
    /\ IF elements(section) = <<>>
       THEN /\ result' = data_tuple(section, <<>>).value
            /\ pc' = "returned"
            /\ UNCHANGED <<raised, raw_data>>
       ELSE LET r == get_section(section, TRUE)
            IN  IF r.raised # NoException
                THEN /\ raised' = r.raised
                     /\ pc' = "raised"
                     /\ UNCHANGED <<result, raw_data>>
                ELSE /\ raw_data' = Select([i \in 1..Len(r.value) |-> Strip(r.value[i])],
                                           {i \in 1..Len(r.value) : Strip(r.value[i]) # <<>>})
                     /\ pc' = "general_loop"
                     /\ UNCHANGED <<raised, result>>
    /\ UNCHANGED <<section, index, parsed_data, header_delimiter_row,
                   table_delimiter_count, temp_data, number_of_interfaces,
                   data_dict>>
    /\ UNCHANGED <<segmenter_vars, facade_vars, sanitize_vars>>
    /\ UNCHANGED construct_vars
    /\ UNCHANGED analysis_vars

\* Lines 602-618: the loop body for the next line.
GeneralLine ==
    /\ pc = "general_loop"
    /\ index < Len(raw_data)
    /\ index' = index + 1
    /\ LET match == data_line_match(raw_data[index + 1])
           key   == sanitize(match.attribute, section)
       IN  IF ~match.matched
           THEN UNCHANGED <<pc, raised, data_dict>>
           ELSE IF key.raised # NoException
           THEN /\ raised' = key.raised
                /\ pc' = "raised"
                /\ UNCHANGED data_dict
           ELSE /\ data_dict' = DictPut(data_dict, key.value, Strip(match.data))
                /\ UNCHANGED <<pc, raised>>
    /\ UNCHANGED <<result, section, raw_data, parsed_data, header_delimiter_row,
                   table_delimiter_count, temp_data, number_of_interfaces>>
    /\ UNCHANGED <<segmenter_vars, facade_vars, sanitize_vars>>
    /\ UNCHANGED construct_vars
    /\ UNCHANGED analysis_vars

\* Line 620: return data_tuple(**data_dict).
GeneralReturn ==
    /\ pc = "general_loop"
    /\ index = Len(raw_data)
    /\ LET r == data_tuple(section, data_dict)
       IN  /\ raised' = r.raised
           /\ result' = r.value
           /\ pc' = IF r.raised = NoException THEN "returned" ELSE "raised"
    /\ UNCHANGED parser_vars
    /\ UNCHANGED <<segmenter_vars, facade_vars, sanitize_vars>>
    /\ UNCHANGED construct_vars
    /\ UNCHANGED analysis_vars

\* "<ordinal> <label><gap>: <value>"
DataLine(ordinal, raw_label, gap, value) ==
    ordinal \o <<" ">> \o raw_label \o gap \o <<":", " ">> \o value

GeneralLines ==
    { DataLine(<<"1", ".", "1">>, <<"I", "D">>, <<>>, <<"5">>),
      DataLine(<<"1", ".", "2">>, <<"N", "a", "m", "e">>, <<" ">>,
               <<"b", "o", "b", ":", " ", "x">>),
      DataLine(<<"1", ".", "3">>, <<"F", "o", "o">>, <<>>, <<"y">>),
      DataLine(<<"2", ".", "1">>, <<"I", "d", " ", "#">>, <<>>, <<"7">>),
      DataLine(<<"2", ".", "2">>, <<"(", "x", ")">>, <<>>, <<"1">>),
      <<"N", "a", "m", "e", ":", " ", "b", "o", "b">>,
      <<"j", "u", "n", "k">>,
      <<>> }

\* The line lists of at most n lines.
Bodies(lines, n) ==
    UNION {[1..k -> lines] : k \in 0..n}

\* A constructed raw map that may hold the section with one of the bodies,
\* and the parser entered for the section.
InitParser(sec, bodies, start) ==
    /\ pc = start
    /\ raised = NoException
    /\ section = sec
    /\ \/ raw_sections = <<>>
       \/ \E body \in bodies : raw_sections = DictPut(<<>>, sec, body)
    /\ parsed_sections = <<>>
    /\ call = <<>>
    /\ result = <<>>
    /\ raw_data = <<>>
    /\ index = 0
    /\ parsed_data = <<>>
    /\ header_delimiter_row = 0
    /\ table_delimiter_count = 0
    /\ temp_data = <<>>
    /\ number_of_interfaces = 0
    /\ data_dict = <<>>
    /\ SegmenterIdle
    /\ SanitizeIdle
    /\ ConstructIdle
    /\ AnalysisIdle

InitGeneral ==
    \E sec \in GeneralSections :
        InitParser(sec, Bodies(GeneralLines, MaxGeneralLines), "general")

NextGeneral ==
    \/ GeneralStart
    \/ GeneralLine
    \/ GeneralReturn

SpecGeneral ==
    InitGeneral /\ [][NextGeneral]_vars

-----------------------------------------------------------------------------
(* Claims about the general parser.                                        *)

Finished ==
    pc \in {"returned", "raised"}

\* C4: for a general section with fields, every section body parses without
\* error into one Record whose fields are fields of the schema: a label that
\* is no field is dropped and a field without a line is left absent.
C4_GeneralParseYieldsSchemaRecord ==
    (/\ Finished
     /\ section \in GeneralSections \cap SectionsWithFields
     /\ section \in DOMAIN raw_sections)
        => /\ pc = "returned"
           /\ DOMAIN result \subseteq Range(elements(section))
           /\ \A i \in 1..Len(raw_data) :
                 LET match == data_line_match(raw_data[i])
                 IN  (match.matched /\ sanitize(match.attribute, section).value
                          \in Range(elements(section)))
                        => sanitize(match.attribute, section).value \in DOMAIN result

\* A User section that holds the line of only one of its two fields has been
\* parsed to its end.
C4_Witness ==
    /\ pc = "raised"
    /\ section = USER
    /\ raw_data = <<DataLine(<<"1", ".", "1">>, <<"I", "D">>, <<>>, <<"5">>)>>
    /\ data_dict = [k \in {<<"i", "d", "_">>} |-> <<"5">>]
    /\ raised.type = "TypeError"

-----------------------------------------------------------------------------
(* The table parser: ELFLogParser._parse_table.                            *)

COLUMN_DELIMITER ==
    "|"

\* A variant of table_parts that slices [:-1]: the empty piece before the
\* first delimiter is kept as the first column.
table_parts_keeping_first_piece(line) ==
    LET pieces == Split(Strip(line), COLUMN_DELIMITER)
    IN  [i \in 1..(Len(pieces) - 1) |-> Strip(pieces[i])]

\* Line 506: [x.strip() for x in line.strip().split('|')][1:-1], the pieces
\* between the first and the last delimiter, each stripped.
table_parts(line) ==
    LET pieces == Split(Strip(line), COLUMN_DELIMITER)
    IN  [i \in 1..(Len(pieces) - 2) |-> Strip(pieces[i + 1])]

\* Lines 485-490: the raw section; a section that is not there raises.
TableStart ==
    /\ pc = "table"
    /\ LET r == get_section(section, TRUE)
       IN  IF r.raised # NoException
           THEN /\ raised' = r.raised
                /\ pc' = "raised"
                /\ UNCHANGED raw_data
           ELSE /\ raw_data' = r.value
                /\ pc' = "table_loop"
                /\ UNCHANGED raised
    /\ UNCHANGED <<result, section, index, parsed_data, header_delimiter_row,
                   table_delimiter_count, temp_data, number_of_interfaces,
                   data_dict>>
    /\ UNCHANGED <<segmenter_vars, facade_vars, sanitize_vars>>
    /\ UNCHANGED construct_vars
    /\ UNCHANGED analysis_vars

\* The loop body with only the lines without a column delimiter counted
\* toward the two that are skipped.
TableLineCountingPipelessOnly ==
    /\ pc = "table_loop"
    /\ index < Len(raw_data)
    /\ index' = index + 1
    /\ LET line == raw_data[index + 1]
       IN  IF COLUMN_DELIMITER \notin Range(line) \/ header_delimiter_row < 2
           THEN /\ header_delimiter_row' =
                      IF COLUMN_DELIMITER \notin Range(line)
                      THEN header_delimiter_row + 1 ELSE header_delimiter_row
                /\ UNCHANGED <<pc, raised, parsed_data>>
           ELSE LET r == data_tuple(section,
                             DictZip(elements(section), table_parts(line)))
                IN  /\ raised' = r.raised
                    /\ pc' = IF r.raised = NoException THEN pc ELSE "raised"
                    /\ parsed_data' = IF r.raised = NoException
                                      THEN Append(parsed_data, r.value)
                                      ELSE parsed_data
                    /\ UNCHANGED header_delimiter_row
    /\ UNCHANGED <<result, section, raw_data, table_delimiter_count, temp_data,
                   number_of_interfaces, data_dict>>
    /\ UNCHANGED <<segmenter_vars, facade_vars, sanitize_vars>>
    /\ UNCHANGED construct_vars
    /\ UNCHANGED analysis_vars

\* Lines 492-508: the loop body for the next line.  A line is skipped, and
\* counted, while fewer than two lines have been skipped or when it holds no
\* column delimiter; any other line is a row.
TableLine ==
    /\ pc = "table_loop"
    /\ index < Len(raw_data)
    /\ index' = index + 1
    /\ LET line == raw_data[index + 1]
       IN  IF COLUMN_DELIMITER \notin Range(line) \/ header_delimiter_row < 2
           THEN /\ header_delimiter_row' = header_delimiter_row + 1
                /\ UNCHANGED <<pc, raised, parsed_data>>
           ELSE LET r == data_tuple(section,
                             DictZip(elements(section), table_parts(line)))
                IN  /\ raised' = r.raised
                    /\ pc' = IF r.raised = NoException THEN pc ELSE "raised"
                    /\ parsed_data' = IF r.raised = NoException
                                      THEN Append(parsed_data, r.value)
                                      ELSE parsed_data
                    /\ UNCHANGED header_delimiter_row
    /\ UNCHANGED <<result, section, raw_data, table_delimiter_count, temp_data,
                   number_of_interfaces, data_dict>>
    /\ UNCHANGED <<segmenter_vars, facade_vars, sanitize_vars>>
    /\ UNCHANGED construct_vars
    /\ UNCHANGED analysis_vars

\* Line 510: return parsed_data.
TableReturn ==
    /\ pc = "table_loop"
    /\ index = Len(raw_data)
    /\ result' = parsed_data
    /\ pc' = "returned"
    /\ UNCHANGED raised
    /\ UNCHANGED parser_vars
    /\ UNCHANGED <<segmenter_vars, facade_vars, sanitize_vars>>
    /\ UNCHANGED construct_vars
    /\ UNCHANGED analysis_vars

TableSections ==
    {MODULES, PROCESSES_INFORMATION}

\* The row |t1|t2|...|tk| of the tokens.
Row(tokens) ==
    <<COLUMN_DELIMITER>>
        \o Concat([i \in 1..Len(tokens) |-> tokens[i] \o <<COLUMN_DELIMITER>>])

Digits9 ==
    <<<<"1">>, <<"2">>, <<"3">>, <<"4">>, <<"5">>, <<"6">>, <<"7">>, <<"8">>,
      <<"9">>>>

\* k tokens that tell their column, every other one with white space
\* around it.
Tokens(k) ==
    [i \in 1..k |-> IF i % 2 = 1 THEN <<" ", "t">> \o Digits9[i] \o <<" ">>
                    ELSE <<"t">> \o Digits9[i]]

\* One column fewer than a schema has, as many, and one more.
ColumnCounts ==
    {Len(elements(sec)) + d : sec \in TableSections, d \in -1..1}

TokenLists ==
    {Tokens(k) : k \in ColumnCounts}

\* Rows, a row that lacks its closing delimiter, a header underline and a
\* line of text.
TableLines ==
    {Row(tokens) : tokens \in TokenLists}
        \cup { <<COLUMN_DELIMITER>> \o Join(Tokens(Max(ColumnCounts)), <<COLUMN_DELIMITER>>),
               <<"-", "-", "-">>,
               <<"t", "e", "x", "t">> }

InitTable ==
    \E sec \in TableSections :
        InitParser(sec, Bodies(TableLines, MaxTableLines), "table")

NextTable ==
    \/ TableStart
    \/ TableLine
    \/ TableReturn

SpecTable ==
    InitTable /\ [][NextTable]_vars

-----------------------------------------------------------------------------
(* Claims about the table parser.                                          *)

\* The lines among the first j that the parser takes as rows: those after
\* the two it always skips that hold a column delimiter.
RowsUpTo(j) ==
    {m \in 3..j : COLUMN_DELIMITER \in Range(raw_data[m])}

\* The Records appended so far, or returned.
TableRecords ==
    IF pc = "returned" THEN result ELSE parsed_data

FieldCount ==
    Len(elements(section))

\* C5: a row with fewer tokens than the schema has fields gives a Record of
\* the tokens that are there, the trailing fields absent; the parse does not
\* raise and the row is not dropped.
C5_ShortRowYieldsRecord ==
    \A j \in 1..index : \A tokens \in TokenLists :
        (/\ pc \in {"table_loop", "returned", "raised"}
         /\ j \in RowsUpTo(j)
         /\ raw_data[j] = Row(tokens)
         /\ Len(tokens) < FieldCount)
            => /\ pc # "raised"
               /\ Cardinality(RowsUpTo(j)) <= Len(TableRecords)
               /\ LET record == TableRecords[Cardinality(RowsUpTo(j))]
                  IN  /\ DOMAIN record = {elements(section)[i] : i \in 1..Len(tokens)}
                      /\ \A i \in 1..Len(tokens) :
                            record[elements(section)[i]] = Strip(tokens[i])

\* A Processes Information row of seven tokens, one fewer than the fields,
\* has been read.
C5_Witness ==
    /\ pc = "raised"
    /\ section = PROCESSES_INFORMATION
    /\ index = 3
    /\ raw_data[3] = Row(Tokens(7))
    /\ raised.type = "TypeError"

\* C6: a row |t1|...|tk| with k at least the number N of fields gives the
\* Record whose i-th field, in the order of the schema, is the token ti
\* stripped of white space, for i in 1..N, and nothing else; the Records
\* stand in the order of their rows.
C6_RowMapsTokensInSchemaOrder ==
    \A j \in 1..index : \A tokens \in TokenLists :
        (/\ pc \in {"table_loop", "returned"}
         /\ j \in RowsUpTo(j)
         /\ raw_data[j] = Row(tokens)
         /\ Len(tokens) >= FieldCount)
            => /\ Cardinality(RowsUpTo(j)) <= Len(TableRecords)
               /\ LET record == TableRecords[Cardinality(RowsUpTo(j))]
                  IN  /\ DOMAIN record = Range(elements(section))
                      /\ \A i \in 1..FieldCount :
                            record[elements(section)[i]] = <<"t">> \o Digits9[i]

\* A Modules Information table returned whose second row has nine
\* tokens, two more than the fields.
C6_Witness ==
    /\ pc = "returned"
    /\ section = MODULES
    /\ Len(raw_data) = 4
    /\ raw_data[3] = Row(Tokens(7))
    /\ raw_data[4] = Row(Tokens(9))
    /\ Len(result) = 2
    /\ result[2][<<"h", "a", "n", "d", "l", "e">>] = <<"t", "1">>
    /\ result[2][<<"p", "a", "t", "h">>] = <<"t", "7">>

-----------------------------------------------------------------------------
(* The call stack parser:                                                  *)
(* ELFLogParser._parse_call_stack_information_section.                     *)

\* The least number of dashes of TABLE_DELIMITER.
DelimiterDashes ==
    12

\* The pattern asking for twenty dashes in the place of twelve.
is_table_delimiter_of_twenty(line) ==
    LET p == RunEnd(line, 1, {COLUMN_DELIMITER})
    IN  RunEnd(line, p + 1, {"-"}) - p >= 20

\* TABLE_DELIMITER = ^[|]*-{12,} searched in line: column delimiters, if
\* any, and then at least twelve dashes, from the start of the line.
is_table_delimiter(line) ==
    LET p == RunEnd(line, 1, {COLUMN_DELIMITER})
    IN  RunEnd(line, p + 1, {"-"}) - p >= DelimiterDashes

\* line.strip(' |')
clean(line) ==
    StripChars(line, {" ", COLUMN_DELIMITER})

\* Lines 448-450: the non-empty pieces between the column delimiters, each
\* stripped of spaces and delimiters.
stack_elements(line) ==
    LET pieces == Split(line, COLUMN_DELIMITER)
        kept   == Select(pieces, {i \in 1..Len(pieces) : pieces[i] # <<>>})
    IN  [i \in 1..Len(kept) |-> clean(kept[i])]

\* Lines 419-427: the empty result, and the raw section; a section that is
\* not there raises.
StackStart ==
    /\ pc = "stack"
    /\ parsed_data' = [summary |-> <<>>, stack |-> <<>>]
    /\ LET r == get_section(CALL_STACK_INFORMATION, TRUE)
       IN  IF r.raised # NoException
           THEN /\ raised' = r.raised
                /\ pc' = "raised"
                /\ UNCHANGED raw_data
           ELSE /\ raw_data' = r.value
                /\ pc' = "stack_loop"
                /\ UNCHANGED raised
    /\ UNCHANGED <<result, section, index, header_delimiter_row,
                   table_delimiter_count, temp_data, number_of_interfaces,
                   data_dict>>
    /\ UNCHANGED <<segmenter_vars, facade_vars, sanitize_vars>>
    /\ UNCHANGED construct_vars
    /\ UNCHANGED analysis_vars

\* The loop body with the frames taken from the third delimiter on
\* (a test `>=` in the place of `==` in line 447).
StackLineAbsorbing ==
    /\ pc = "stack_loop"
    /\ index < Len(raw_data)
    /\ index' = index + 1
    /\ LET line == raw_data[index + 1]
       IN  IF is_table_delimiter(line)
           THEN /\ table_delimiter_count' = table_delimiter_count + 1
                /\ UNCHANGED <<pc, raised, parsed_data>>
           ELSE /\ UNCHANGED table_delimiter_count
                /\ IF table_delimiter_count = 2
                   THEN /\ parsed_data' =
                              [parsed_data EXCEPT
                                  !.summary = @ \o clean(line) \o <<"\n">>]
                        /\ UNCHANGED <<pc, raised>>
                   ELSE IF table_delimiter_count >= 3
                   THEN LET r == data_tuple(CALL_STACK_INFORMATION,
                                     DictZip(elements(CALL_STACK_INFORMATION),
                                             stack_elements(line)))
                        IN  /\ raised' = r.raised
                            /\ pc' = IF r.raised = NoException THEN pc ELSE "raised"
                            /\ parsed_data' =
                                  IF r.raised = NoException
                                  THEN [parsed_data EXCEPT !.stack = Append(@, r.value)]
                                  ELSE parsed_data
                   ELSE UNCHANGED <<pc, raised, parsed_data>>
    /\ UNCHANGED <<result, section, raw_data, header_delimiter_row, temp_data,
                   number_of_interfaces, data_dict>>
    /\ UNCHANGED <<segmenter_vars, facade_vars, sanitize_vars>>
    /\ UNCHANGED construct_vars
    /\ UNCHANGED analysis_vars

\* The loop body with the summary taken from the second delimiter on
\* (a test `>=` in the place of `==` in line 437).
StackLineSummaryKeptOpen ==
    /\ pc = "stack_loop"
    /\ index < Len(raw_data)
    /\ index' = index + 1
    /\ LET line == raw_data[index + 1]
           summed == IF table_delimiter_count >= 2
                     THEN [parsed_data EXCEPT
                              !.summary = @ \o clean(line) \o <<"\n">>]
                     ELSE parsed_data
       IN  IF is_table_delimiter(line)
           THEN /\ table_delimiter_count' = table_delimiter_count + 1
                /\ UNCHANGED <<pc, raised, parsed_data>>
           ELSE /\ UNCHANGED table_delimiter_count
                /\ IF table_delimiter_count = 3
                   THEN LET r == data_tuple(CALL_STACK_INFORMATION,
                                     DictZip(elements(CALL_STACK_INFORMATION),
                                             stack_elements(line)))
                        IN  /\ raised' = r.raised
                            /\ pc' = IF r.raised = NoException THEN pc ELSE "raised"
                            /\ parsed_data' =
                                  IF r.raised = NoException
                                  THEN [summed EXCEPT !.stack = Append(@, r.value)]
                                  ELSE summed
                   ELSE /\ parsed_data' = summed
                        /\ UNCHANGED <<pc, raised>>
    /\ UNCHANGED <<result, section, raw_data, header_delimiter_row, temp_data,
                   number_of_interfaces, data_dict>>
    /\ UNCHANGED <<segmenter_vars, facade_vars, sanitize_vars>>
    /\ UNCHANGED construct_vars
    /\ UNCHANGED analysis_vars

\* Lines 429-454: the loop body for the next line.  A delimiter is counted;
\* any other line goes to the summary while the count is two and to the
\* frames while it is three.
StackLine ==
    /\ pc = "stack_loop"
    /\ index < Len(raw_data)
    /\ index' = index + 1
    /\ LET line == raw_data[index + 1]
       IN  IF is_table_delimiter(line)
           THEN /\ table_delimiter_count' = table_delimiter_count + 1
                /\ UNCHANGED <<pc, raised, parsed_data>>
           ELSE /\ UNCHANGED table_delimiter_count
                /\ IF table_delimiter_count = 2
                   THEN /\ parsed_data' =
                              [parsed_data EXCEPT
                                  !.summary = @ \o clean(line) \o <<"\n">>]
                        /\ UNCHANGED <<pc, raised>>
                   ELSE IF table_delimiter_count = 3
                   THEN LET r == data_tuple(CALL_STACK_INFORMATION,
                                     DictZip(elements(CALL_STACK_INFORMATION),
                                             stack_elements(line)))
                        IN  /\ raised' = r.raised
                            /\ pc' = IF r.raised = NoException THEN pc ELSE "raised"
                            /\ parsed_data' =
                                  IF r.raised = NoException
                                  THEN [parsed_data EXCEPT !.stack = Append(@, r.value)]
                                  ELSE parsed_data
                   ELSE UNCHANGED <<pc, raised, parsed_data>>
    /\ UNCHANGED <<result, section, raw_data, header_delimiter_row, temp_data,
                   number_of_interfaces, data_dict>>
    /\ UNCHANGED <<segmenter_vars, facade_vars, sanitize_vars>>
    /\ UNCHANGED construct_vars
    /\ UNCHANGED analysis_vars

\* Line 456: return parsed_data.
StackReturn ==
    /\ pc = "stack_loop"
    /\ index = Len(raw_data)
    /\ result' = parsed_data
    /\ pc' = "returned"
    /\ UNCHANGED raised
    /\ UNCHANGED parser_vars
    /\ UNCHANGED <<segmenter_vars, facade_vars, sanitize_vars>>
    /\ UNCHANGED construct_vars
    /\ UNCHANGED analysis_vars

Dashes(n) ==
    [i \in 1..n |-> "-"]

\* A frame row: one token for each column of the call stack table.
FrameRow ==
    Row([i \in 1..Len(elements(CALL_STACK_INFORMATION)) |->
            <<" ", "f", LowerCase[i], " ">>])

\* A delimiter with and without a leading column delimiter, a run of dashes
\* one short of a delimiter, a line of the summary, a frame row, and a line
\* of text.
StackLines ==
    { <<COLUMN_DELIMITER>> \o Dashes(DelimiterDashes),
      Dashes(DelimiterDashes + 1),
      Dashes(DelimiterDashes - 1),
      <<"|", " ", "s", "u", "m", " ", "|">>,
      FrameRow,
      <<"t", "e", "x", "t">> }

InitStack ==
    InitParser(CALL_STACK_INFORMATION, Bodies(StackLines, MaxStackLines),
               "stack")

NextStack ==
    \/ StackStart
    \/ StackLine
    \/ StackReturn

SpecStack ==
    InitStack /\ [][NextStack]_vars

-----------------------------------------------------------------------------
(* Claims about the call stack parser.                                     *)

\* The positions of the delimiter lines of the section.
DelimiterLines ==
    {j \in 1..Len(raw_data) : is_table_delimiter(raw_data[j])}

\* The position of the n-th delimiter line.
NthDelimiter(n) ==
    CHOOSE j \in DelimiterLines :
        Cardinality({m \in DelimiterLines : m <= j}) = n

\* C7: for a section with exactly three delimiter lines the parse returns;
\* its summary is the lines between the second and the third delimiter, each
\* stripped of spaces and column delimiters and ended by a newline, in their
\* order, and its frame list has one Record for each line after the third
\* delimiter, in their order.
C7_ThreeDelimitersSummaryAndFrames ==
    (/\ Finished
     /\ section = CALL_STACK_INFORMATION
     /\ section \in DOMAIN raw_sections
     /\ Cardinality(DelimiterLines) = 3)
        => /\ pc = "returned"
           /\ result.summary =
                 Concat([k \in 1..(NthDelimiter(3) - NthDelimiter(2) - 1) |->
                            clean(raw_data[NthDelimiter(2) + k]) \o <<"\n">>])
           /\ Len(result.stack) = Len(raw_data) - NthDelimiter(3)
           /\ \A k \in 1..Len(result.stack) :
                 DOMAIN result.stack[k] = Range(elements(CALL_STACK_INFORMATION))

\* A line of text after the third delimiter has stopped the parse.
C7_Witness ==
    /\ pc = "raised"
    /\ section = CALL_STACK_INFORMATION
    /\ Cardinality(DelimiterLines) = 3
    /\ Len(raw_data) = 5
    /\ NthDelimiter(3) = 4
    /\ raw_data[5] = <<"t", "e", "x", "t">>
    /\ raised.type = "TypeError"

-----------------------------------------------------------------------------
(* The network parser: ELFLogParser._parse_network_section.                *)

\* Lines 649-650: the pieces of the value between single spaces, stripped,
\* without the empty ones and the bare dashes.
network_results(data) ==
    LET pieces == Split(data, " ")
        kept   == Select(pieces, {i \in 1..Len(pieces) :
                                     /\ Strip(pieces[i]) # <<>>
                                     /\ Strip(pieces[i]) # <<"-">>})
    IN  [i \in 1..Len(kept) |-> Strip(kept[i])]

\* Lines 630-637: the raw section; a section that is not there raises.
NetworkStart ==
    /\ pc = "network"
    /\ LET r == get_section(NETWORK, TRUE)
       IN  IF r.raised # NoException
           THEN /\ raised' = r.raised
                /\ pc' = "raised"
                /\ UNCHANGED raw_data
           ELSE /\ raw_data' = r.value
                /\ pc' = "network_loop"
                /\ UNCHANGED raised
    /\ UNCHANGED <<result, section, index, parsed_data, header_delimiter_row,
                   table_delimiter_count, temp_data, number_of_interfaces,
                   data_dict>>
    /\ UNCHANGED <<segmenter_vars, facade_vars, sanitize_vars>>
    /\ UNCHANGED construct_vars
    /\ UNCHANGED analysis_vars

\* Lines 642-654: the loop body for the next line.  A line that matches
\* gives the values of its attribute, and the number of interfaces is the
\* number of values of the line matched last.
NetworkLine ==
    /\ pc = "network_loop"
    /\ index < Len(raw_data)
    /\ index' = index + 1
    /\ LET match   == data_line_match(raw_data[index + 1])
           name    == replace_space_with_char(Lower(match.attribute), <<"_">>)
           results == network_results(match.data)
       IN  IF match.matched
           THEN /\ number_of_interfaces' = Len(results)
                /\ temp_data' = DictPut(temp_data, name, results)
           ELSE UNCHANGED <<number_of_interfaces, temp_data>>
    /\ UNCHANGED <<pc, raised, result, section, raw_data, parsed_data,
                   header_delimiter_row, table_delimiter_count, data_dict>>
    /\ UNCHANGED <<segmenter_vars, facade_vars, sanitize_vars>>
    /\ UNCHANGED construct_vars
    /\ UNCHANGED analysis_vars

\* Lines 656-669: one dictionary for each interface with the value at its
\* position of every attribute, which a list of values that is too short
\* does not have, and one NetworkElement of each dictionary.
NetworkReturn ==
    /\ pc = "network_loop"
    /\ index = Len(raw_data)
    /\ LET tuple_args_dicts ==
               [n \in 1..number_of_interfaces |->
                   [key \in DOMAIN temp_data |-> temp_data[key][n]]]
           tuples ==
               [n \in 1..number_of_interfaces |->
                   data_tuple(NETWORK, tuple_args_dicts[n])]
       IN  IF \E key \in DOMAIN temp_data :
                 Len(temp_data[key]) < number_of_interfaces
           THEN /\ raised' = Exception("IndexError", <<>>)
                /\ pc' = "raised"
                /\ UNCHANGED result
           ELSE IF \E n \in 1..number_of_interfaces :
                      tuples[n].raised # NoException
           THEN /\ raised' = tuples[CHOOSE n \in 1..number_of_interfaces :
                                        tuples[n].raised # NoException].raised
                /\ pc' = "raised"
                /\ UNCHANGED result
           ELSE /\ result' = [n \in 1..number_of_interfaces |-> tuples[n].value]
                /\ pc' = "returned"
                /\ UNCHANGED raised
    /\ UNCHANGED parser_vars
    /\ UNCHANGED <<segmenter_vars, facade_vars, sanitize_vars>>
    /\ UNCHANGED construct_vars
    /\ UNCHANGED analysis_vars

\* The labels of the Network section as the log prints them, in the order of
\* the fields.
NetworkLabels ==
    << <<"I", "P", " ", "A", "d", "d", "r", "e", "s", "s">>,
       <<"S", "u", "b", "m", "a", "s", "k">>,
       <<"G", "a", "t", "e", "w", "a", "y">>,
       <<"D", "N", "S", " ", "1">>,
       <<"D", "N", "S", " ", "2">>,
       <<"D", "H", "C", "P">> >>

\* The value of attribute a for interface n.
NetworkValue(a, n) ==
    Digits9[a] \o <<".">> \o Digits9[n]

\* The line of attribute a with a value for each of n interfaces; dashed,
\* a placeholder and a second space stand between the values.
NetworkLineOf(a, n, dashed) ==
    DataLine(<<"9", ".">> \o Digits9[a], NetworkLabels[a], <<>>,
             Join([i \in 1..n |-> NetworkValue(a, i)],
                  IF dashed THEN <<" ", "-", " ", " ">> ELSE <<" ">>))

\* What the section may hold for attribute a: no line, the line with a
\* value for some or all of the interfaces, plain or with placeholders, and
\* the line without its ordinal.
NetworkVariants(a) ==
    { <<>> }
        \cup { <<NetworkLineOf(a, n, FALSE)>> : n \in 1..MaxInterfaces }
        \cup { <<NetworkLineOf(a, MaxInterfaces, TRUE)>>,
               <<Canonical(NetworkLabels[a]) \o <<":", " ">>
                    \o Join([i \in 1..MaxInterfaces |-> NetworkValue(a, i)], <<" ">>)>> }

\* The sections that hold, in the order of the fields, one variant for each
\* attribute from the a-th on.
RECURSIVE NetworkBodiesFrom(_)
NetworkBodiesFrom(a) ==
    IF a > Len(NetworkLabels) THEN { <<>> }
    ELSE { lines \o rest : lines \in NetworkVariants(a),
                           rest \in NetworkBodiesFrom(a + 1) }

\* ip_address: 10.0.0.1 10.0.0.2
\* dhcp: yes no
ExampleBody ==
    << <<"i", "p", "_", "a", "d", "d", "r", "e", "s", "s", ":", " ",
         "1", "0", ".", "0", ".", "0", ".", "1", " ",
         "1", "0", ".", "0", ".", "0", ".", "2">>,
       <<"d", "h", "c", "p", ":", " ", "y", "e", "s", " ", "n", "o">> >>

\* The example with the ordinals the log prints before its labels.
NumberedExampleBody ==
    << <<"9", ".", "1", " ">> \o ExampleBody[1],
       <<"9", ".", "6", " ">> \o ExampleBody[2] >>

InitNetwork ==
    InitParser(NETWORK,
               NetworkBodiesFrom(1) \cup {ExampleBody, NumberedExampleBody},
               "network")

NextNetwork ==
    \/ NetworkStart
    \/ NetworkLine
    \/ NetworkReturn

SpecNetwork ==
    InitNetwork /\ [][NextNetwork]_vars

-----------------------------------------------------------------------------
(* Claims about the network parser.                                        *)

\* The name the parser files the attribute of a matched line under.
NetworkName(line) ==
    replace_space_with_char(Lower(data_line_match(line).attribute), <<"_">>)

\* The lines of the section that match the key/value pattern and are the
\* last for their attribute.
AttributeLines ==
    {j \in 1..Len(raw_data) :
        /\ data_line_match(raw_data[j]).matched
        /\ \A m \in (j + 1)..Len(raw_data) :
              data_line_match(raw_data[m]).matched
                  => NetworkName(raw_data[m]) # NetworkName(raw_data[j])}

ExampleRecord(ip_address, dhcp) ==
    [k \in {<<"i", "p", "_", "a", "d", "d", "r", "e", "s", "s">>,
            <<"d", "h", "c", "p">>} |->
        IF k = <<"d", "h", "c", "p">> THEN dhcp ELSE ip_address]

ExampleRecords ==
    << ExampleRecord(<<"1", "0", ".", "0", ".", "0", ".", "1">>, <<"y", "e", "s">>),
       ExampleRecord(<<"1", "0", ".", "0", ".", "0", ".", "2">>, <<"n", "o">>) >>

\* C8: the parse of a Network section returns Records of which the n-th
\* holds, for every line that matches the key/value pattern, the n-th of the
\* values of the line that are neither empty nor a bare dash; the two lines
\* of the example give the two Records of the example.
C8_InterfaceHoldsNthValue ==
    (/\ Finished
     /\ section = NETWORK
     /\ section \in DOMAIN raw_sections)
        => /\ pc = "returned"
           /\ \A j \in AttributeLines :
                 LET values == network_results(data_line_match(raw_data[j]).data)
                 IN  \A n \in 1..Len(values) :
                        /\ n <= Len(result)
                        /\ NetworkName(raw_data[j]) \in DOMAIN result[n]
                        /\ result[n][NetworkName(raw_data[j])] = values[n]
           /\ raw_data \in {ExampleBody, NumberedExampleBody}
                 => result = ExampleRecords

\* The two lines of the example have been parsed into no Record at all.
C8_Witness ==
    /\ pc = "returned"
    /\ section = NETWORK
    /\ raw_data = ExampleBody
    /\ result = <<>>

-----------------------------------------------------------------------------
(* The data stream: ELFLogParser._process_data_stream.                     *)

\* The product name at the top of a log.
ANCHOR ==
    <<"E", "u", "r", "e", "k", "a">>

\* '\\r\\n': the four characters backslash, r, backslash, n.
SEPARATOR ==
    <<"\\", "r", "\\", "n">>

\* s[i : i + len(sub)] == sub, for the one-based position i.
OccursAt(s, sub, i) ==
    /\ i + Len(sub) - 1 <= Len(s)
    /\ SubSeq(s, i, i + Len(sub) - 1) = sub

\* str.find(sub) for a non-empty sub: the zero-based index of the first
\* occurrence, or -1.
Find(s, sub) ==
    IF \E i \in 1..Len(s) : OccursAt(s, sub, i)
    THEN Min({i \in 1..Len(s) : OccursAt(s, sub, i)}) - 1
    ELSE -1

\* s[index:], where a negative index counts from the end.
SliceFrom(s, start) ==
    IF start >= 0
    THEN SubSeq(s, start + 1, Len(s))
    ELSE SubSeq(s, Max({Len(s) + start, 0}) + 1, Len(s))

\* The elements of a set of numbers in ascending order.
Ascending(S) ==
    [k \in 1..Cardinality(S) |->
        CHOOSE i \in S : Cardinality({j \in S : j < i}) = k - 1]

\* A scan from the left for a separator of length n takes the occurrence at
\* h, one of the positions hits, when it took none that overlaps h.
RECURSIVE TakenFromLeft(_, _, _)
TakenFromLeft(hits, n, h) ==
    \A t \in hits : (h - n < t /\ t < h) => ~TakenFromLeft(hits, n, t)

\* str.split(sep) for a sep of any length: the pieces between the
\* occurrences of sep, found from the left without overlap.
SplitOn(s, sep) ==
    LET hits == {i \in 1..Len(s) : OccursAt(s, sep, i)}
        cuts == Ascending({h \in hits : TakenFromLeft(hits, Len(sep), h)})
        from == <<1>> \o [k \in 1..Len(cuts) |-> cuts[k] + Len(sep)]
        to   == cuts \o <<Len(s) + 1>>
    IN  [k \in 1..(Len(cuts) + 1) |-> SubSeq(s, from[k], to[k] - 1)]

\* A variant that cuts at the last occurrence of the anchor (str.rfind).
process_data_stream_from_last_anchor(stream) ==
    LET hits == {i \in 1..Len(stream) : OccursAt(stream, ANCHOR, i)}
    IN  SplitOn(SliceFrom(stream, IF hits = {} THEN -1 ELSE Max(hits) - 1),
                SEPARATOR)

\* A variant that keeps the whole stream when it holds no anchor (find
\* giving -1 taken as "nothing to cut").
process_data_stream_whole_without_anchor(stream) ==
    SplitOn(SliceFrom(stream, Max({Find(stream, ANCHOR), 0})), SEPARATOR)

\* Lines 301-303: index = stream.find("Eureka");
\* [x for x in stream[index:].split('\\r\\n')]
process_data_stream(stream) ==
    SplitOn(SliceFrom(stream, Find(stream, ANCHOR)), SEPARATOR)

-----------------------------------------------------------------------------
(* Construction: ELFDataTuples.__init__ and ELFLogParser.__init__.         *)

\* _build_tuple_name(section): the name without white space, "Element"
\* after it.
build_tuple_name(sec) ==
    Select(sec, {i \in 1..Len(sec) : sec[i] \notin WhiteSpace})
        \o <<"E", "l", "e", "m", "e", "n", "t">>

\* namedtuple(name, fields): a class of its own each time it is called; maker
\* tells the classes of different calls apart.
namedtuple(name, fields, maker) ==
    [name |-> name, fields |-> fields, maker |-> maker]

\* Lines 65-142: the named_tuple entries of the class-level definitions as
\* the class statement leaves them.
undefined_tuples ==
    [sec \in Sections |-> None]

\* _define_named_tuples() of the instance maker: the named_tuple entry of
\* every section of the class-level definitions.
define_named_tuples(maker) ==
    [sec \in Sections |->
        namedtuple(build_tuple_name(sec), elements(sec), maker)]

\* The label a log prints for a field: the field without the underscore of
\* a reserved name, its other underscores spaces.
FieldLabel(field) ==
    LET bare == IF field[Len(field)] = "_"
                THEN SubSeq(field, 1, Len(field) - 1) ELSE field
    IN  [i \in 1..Len(bare) |-> IF bare[i] = "_" THEN " " ELSE bare[i]]

\* The lines of a section that its parser accepts, after the heading.
SectionBody(sec) ==
    CASE sec \in GeneralSections ->
         [i \in 1..Len(elements(sec)) |->
             DataLine(<<"1", ".", "1">>, FieldLabel(elements(sec)[i]), <<>>, <<"v">>)]
      [] sec \in TableSections ->
         << <<"t", "e", "x", "t">>, <<"-", "-", "-">>,
            Row(Tokens(Len(elements(sec)))) >>
      [] sec = CALL_STACK_INFORMATION ->
         << Dashes(DelimiterDashes), Dashes(DelimiterDashes),
            <<"|", " ", "s", "u", "m", " ", "|">>, Dashes(DelimiterDashes),
            FrameRow >>
      [] sec = NETWORK ->
         [a \in 1..Len(NetworkLabels) |-> NetworkLineOf(a, 1, FALSE)]

\* The lines of a log that holds the sections of secs, in the order of
\* ELFLogSections, under the line of the product name.
RECURSIVE LogBlocks(_, _)
LogBlocks(names, secs) ==
    IF names = <<>> THEN <<>>
    ELSE (IF Head(names) \in secs
          THEN <<Head(names) \o <<":">>>> \o SectionBody(Head(names))
          ELSE <<>>)
         \o LogBlocks(Tail(names), secs)

Log(secs) ==
    <<ANCHOR \o <<"L", "o", "g">>>> \o LogBlocks(SectionList, secs)

\* The logs: with every section, with all but one, and without any line.
Logs ==
    {Log(Sections)} \cup {Log(Sections \ {sec}) : sec \in Sections} \cup {<<>>}

\* What readlines() gives for a log: every line with its line end.
LogFiles ==
    {[i \in 1..Len(log) |-> log[i] \o <<"\n">>] : log \in Logs}

\* What an attachment holds for a log: bytes before the product name, and
\* the lines with the separator between them.
LogStreams ==
    {<<"b", "'">> \o Join(log, SEPARATOR) : log \in Logs \ {<<>>}}

StreamPieces ==
    { ANCHOR, SEPARATOR, <<"a", "b", ":">>, <<"x">>, <<"\\", "r">>, <<"E">> }

\* The data streams: the logs and everything of at most MaxPieces pieces.
Streams ==
    LogStreams \cup {Concat(pieces) : pieces \in Bodies(StreamPieces, MaxPieces)}

\* Lines 270-271: the arguments, and the registry instance.
ConstructEnter ==
    /\ pc = "new"
    /\ attributes' = attributes \cup {"log_file", "_tuples"}
    /\ definitions' = define_named_tuples(1)
    /\ pc' = "source"
    /\ UNCHANGED <<raised, result, log_file, binary_content, workers>>
    /\ UNCHANGED <<segmenter_vars, facade_vars, parser_vars, sanitize_vars>>
    /\ UNCHANGED analysis_vars

\* Lines 273-274 and _read_file: the lines of the file, each with its line
\* end; open() raises when there is no such file.
ConstructReadFile ==
    /\ pc = "source"
    /\ log_file # <<>>
    /\ \/ \E lines \in LogFiles :
             /\ contents' = lines
             /\ attributes' = attributes \cup {"_contents"}
             /\ pc' = "segment"
             /\ UNCHANGED raised
       \/ /\ raised' = Exception("FileNotFoundError", <<log_file>>)
          /\ pc' = "raised"
          /\ UNCHANGED <<contents, attributes>>
    /\ UNCHANGED <<result, sections, current_section, log_file, binary_content,
                   definitions, workers>>
    /\ UNCHANGED <<facade_vars, parser_vars, sanitize_vars>>
    /\ UNCHANGED analysis_vars

\* The data stream taken whenever there is no file (an else without the
\* test of line 275).
ConstructProcessDataStreamUntested ==
    /\ pc = "source"
    /\ log_file = <<>>
    /\ contents' = process_data_stream(binary_content)
    /\ attributes' = attributes \cup {"_contents"}
    /\ pc' = "segment"
    /\ UNCHANGED <<raised, result, sections, current_section, log_file,
                   binary_content, definitions, workers>>
    /\ UNCHANGED <<facade_vars, parser_vars, sanitize_vars>>
    /\ UNCHANGED analysis_vars

\* Lines 275-276: the lines of the data stream.
ConstructProcessDataStream ==
    /\ pc = "source"
    /\ log_file = <<>>
    /\ binary_content # <<>>
    /\ contents' = process_data_stream(binary_content)
    /\ attributes' = attributes \cup {"_contents"}
    /\ pc' = "segment"
    /\ UNCHANGED <<raised, result, sections, current_section, log_file,
                   binary_content, definitions, workers>>
    /\ UNCHANGED <<facade_vars, parser_vars, sanitize_vars>>
    /\ UNCHANGED analysis_vars

\* Lines 277-278: neither a file nor a stream.
ConstructUnableToParse ==
    /\ pc = "source"
    /\ log_file = <<>>
    /\ binary_content = <<>>
    /\ raised' = Exception("UnableToParseELFLog",
                           <<"No ELF log filename or file contents provided.">>)
    /\ pc' = "raised"
    /\ UNCHANGED <<result, construct_vars>>
    /\ UNCHANGED <<segmenter_vars, facade_vars, parser_vars, sanitize_vars>>
    /\ UNCHANGED analysis_vars

\* Line 280, _parse_raw_sections: the loop body for the next line of
\* self._contents, as ParseRawSectionsLine has it.
ConstructParseRawSectionsLine ==
    /\ pc = "segment"
    /\ index < Len(contents)
    /\ index' = index + 1
    /\ LET line == contents[index + 1]
       IN  IF IsSectionHeader(line)
           THEN /\ current_section' = SectionName(line)
                /\ sections' = DictPut(sections, SectionName(line), <<>>)
           ELSE IF current_section # None
           THEN /\ sections' = DictPut(sections, current_section,
                                       Append(sections[current_section], Strip(line)))
                /\ UNCHANGED current_section
           ELSE UNCHANGED <<sections, current_section>>
    /\ UNCHANGED <<pc, raised, result, contents, section, raw_data, parsed_data,
                   header_delimiter_row, table_delimiter_count, temp_data,
                   number_of_interfaces, data_dict>>
    /\ UNCHANGED <<facade_vars, sanitize_vars, construct_vars>>
    /\ UNCHANGED analysis_vars

\* Line 280: self._raw_sections = the dict the loop has built.  The dict of
\* _parse_elf_sections (line 340) starts empty.
ConstructParseRawSectionsReturn ==
    /\ pc = "segment"
    /\ index = Len(contents)
    /\ raw_sections' = sections
    /\ attributes' = attributes \cup {"_raw_sections"}
    /\ sections' = <<>>
    /\ current_section' = None
    /\ pc' = "parse"
    /\ UNCHANGED <<raised, result, contents, parsed_sections, call, log_file,
                   binary_content, definitions, workers>>
    /\ UNCHANGED <<parser_vars, sanitize_vars>>
    /\ UNCHANGED analysis_vars

\* The dispatch with the Network section handed to the table parser.
parse_section_entry_network_as_table(sec) ==
    CASE sec \in GeneralSections -> "general"
      [] sec \in TableSections \cup {NETWORK} -> "table"
      [] sec = CALL_STACK_INFORMATION -> "stack"

\* getattr(self, '_parse_<name>_section'): where the method of the section
\* starts.
parse_section_entry(sec) ==
    CASE sec \in GeneralSections -> "general"
      [] sec \in TableSections -> "table"
      [] sec = CALL_STACK_INFORMATION -> "stack"
      [] sec = NETWORK -> "network"

\* The sections of ELFLogSections that _parse_elf_sections has yet to
\* parse, by their place in the order of the loop.
SectionsToParse ==
    {i \in 1..Len(SectionList) : Canonical(SectionList[i]) \notin DOMAIN sections}

\* Lines 341-350, _parse_elf_sections: the method of the next section of
\* ELFLogSections is called, its locals as a call starts with them.
ConstructParseSection ==
    /\ pc = "parse"
    /\ SectionsToParse # {}
    /\ section' = SectionList[Min(SectionsToParse)]
    /\ pc' = parse_section_entry(SectionList[Min(SectionsToParse)])
    /\ raw_data' = <<>>
    /\ index' = 0
    /\ parsed_data' = <<>>
    /\ header_delimiter_row' = 0
    /\ table_delimiter_count' = 0
    /\ temp_data' = <<>>
    /\ number_of_interfaces' = 0
    /\ data_dict' = <<>>
    /\ UNCHANGED <<raised, result>>
    /\ UNCHANGED <<segmenter_vars, facade_vars, sanitize_vars, construct_vars>>
    /\ UNCHANGED analysis_vars

\* Line 350: sections[name] = method(), under the canonical name.
ConstructStoreSection ==
    /\ pc = "returned"
    /\ sections' = DictPut(sections, Canonical(section), result)
    /\ pc' = "parse"
    /\ UNCHANGED <<raised, result, contents, current_section>>
    /\ UNCHANGED <<facade_vars, parser_vars, sanitize_vars, construct_vars>>
    /\ UNCHANGED analysis_vars

\* Lines 356 and 281: self._parsed_sections = the dict of the sections.
ConstructParseElfSectionsReturn ==
    /\ pc = "parse"
    /\ SectionsToParse = {}
    /\ parsed_sections' = sections
    /\ attributes' = attributes \cup {"_parsed_sections"}
    /\ pc' = "constructed"
    /\ UNCHANGED <<raised, result, raw_sections, call, log_file, binary_content,
                   definitions, workers>>
    /\ UNCHANGED <<segmenter_vars, parser_vars, sanitize_vars>>
    /\ UNCHANGED analysis_vars

\* A call of ELFLogParser(log_file, binary_content): a file, a data stream,
\* or neither.
InitConstruct ==
    /\ pc = "new"
    /\ raised = NoException
    /\ \/ log_file = <<>> /\ binary_content \in Streams
       \/ log_file = <<"f">> /\ binary_content \in {<<>>, ANCHOR}
    /\ attributes = {}
    /\ definitions = undefined_tuples
    /\ workers = <<>>
    /\ raw_sections = <<>>
    /\ parsed_sections = <<>>
    /\ call = <<>>
    /\ result = <<>>
    /\ SegmenterIdle
    /\ ParserIdle
    /\ SanitizeIdle
    /\ AnalysisIdle

\* The constructor, and the section parsers it calls.
NextConstruct ==
    \/ ConstructEnter
    \/ ConstructReadFile
    \/ ConstructProcessDataStream
    \/ ConstructUnableToParse
    \/ ConstructParseRawSectionsLine
    \/ ConstructParseRawSectionsReturn
    \/ ConstructParseSection
    \/ ConstructStoreSection
    \/ ConstructParseElfSectionsReturn
    \/ GeneralStart
    \/ GeneralLine
    \/ GeneralReturn
    \/ TableStart
    \/ TableLine
    \/ TableReturn
    \/ StackStart
    \/ StackLine
    \/ StackReturn
    \/ NetworkStart
    \/ NetworkLine
    \/ NetworkReturn

SpecConstruct ==
    InitConstruct /\ [][NextConstruct]_vars

-----------------------------------------------------------------------------
(* Claims about construction.                                              *)

\* C11: a construction with neither a log file nor content ends, as soon as
\* the source has been looked at, with UnableToParseELFLog; no line has been
\* read or segmented, no section parsed, and the instance has neither a
\* raw-section map nor a parsed-section map.
C11_NoSourceIsUnableToParse ==
    (log_file = <<>> /\ binary_content = <<>> /\ pc \notin {"new", "source"})
        => /\ pc = "raised"
           /\ raised.type = "UnableToParseELFLog"
           /\ attributes \cap {"_contents", "_raw_sections", "_parsed_sections"} = {}
           /\ contents = <<>>
           /\ sections = <<>>
           /\ raw_sections = <<>>
           /\ parsed_sections = <<>>
           /\ ParserIdle

\* A construction with neither a log file nor content has failed.
C11_Witness ==
    /\ pc = "raised"
    /\ log_file = <<>>
    /\ binary_content = <<>>
    /\ raised.type = "UnableToParseELFLog"
    /\ attributes = {"log_file", "_tuples"}

\* The position of the first occurrence of the anchor in the stream.
FirstAnchor(stream) ==
    CHOOSE i \in 1..Len(stream) :
        /\ OccursAt(stream, ANCHOR, i)
        /\ \A j \in 1..(i - 1) : ~OccursAt(stream, ANCHOR, j)

HasAnchor(stream) ==
    \E i \in 1..Len(stream) : OccursAt(stream, ANCHOR, i)

\* C12: for a data stream that holds the anchor, the lines handed to the
\* segmenter are the pieces, between the separators, of the stream from the
\* first occurrence of the anchor on: with the separator between them they
\* are that suffix, and none of them holds a separator.
C12_LinesAreSuffixFromFirstAnchor ==
    (/\ log_file = <<>>
     /\ "_contents" \in attributes
     /\ HasAnchor(binary_content))
        => /\ Join(contents, SEPARATOR)
                 = SubSeq(binary_content, FirstAnchor(binary_content),
                          Len(binary_content))
           /\ \A k \in 1..Len(contents) : \A i \in 1..Len(contents[k]) :
                 ~OccursAt(contents[k], SEPARATOR, i)

\* A stream with a byte before the anchor, the anchor twice and a separator
\* at its end has been cut into its lines.
C12_Witness ==
    /\ pc = "segment"
    /\ binary_content = <<"x">> \o ANCHOR \o ANCHOR \o SEPARATOR
    /\ contents = <<ANCHOR \o ANCHOR, <<>>>>

-----------------------------------------------------------------------------
(* Two constructions running at once.  A worker constructs one             *)
(* ELFLogParser: its ELFDataTuples() writes the named_tuple entry of every  *)
(* section of the class-level definitions, one section at a time, and each  *)
(* of its section parsers then reads the entry of its section to build its  *)
(* Records.  What a worker does between these steps touches only its own    *)
(* instance and is left out.                                                *)

Workers == {1, 2}

\* Lines 65-142: the sections of ELFDataTuples.definitions in the order of
\* the dict, the order of the loop of line 157.
DefinitionList ==
    <<CALL_STACK_INFORMATION, EXCEPTION, ACTIVE_CONTROLS, COMPUTER, USER,
      APPLICATION, OPERATING_SYSTEM, MODULES, PROCESSES_INFORMATION,
      ASSEMBLER_INFORMATION, REGISTERS, NETWORK>>

\* Line 177, get_tuple_definition: the class the registry holds now.
get_tuple_definition(sec) ==
    definitions[sec]

\* Lines 270-271: a worker enters __init__ and ELFDataTuples().
WorkerEnter(w) ==
    /\ workers[w].pc = "new"
    /\ workers' = [workers EXCEPT ![w].pc = "define"]
    /\ UNCHANGED <<pc, raised, result, log_file, binary_content, attributes,
                   definitions>>
    /\ UNCHANGED <<segmenter_vars, facade_vars, parser_vars, sanitize_vars>>
    /\ UNCHANGED analysis_vars

\* Lines 157-159: one turn of the loop of _define_named_tuples, a write to
\* the class-level definitions.
WorkerDefine(w) ==
    /\ workers[w].pc = "define"
    /\ LET sec == DefinitionList[workers[w].defined + 1]
       IN  definitions' = DictPut(definitions, sec,
               namedtuple(build_tuple_name(sec), elements(sec), w))
    /\ workers' = [workers EXCEPT
           ![w].defined = @ + 1,
           ![w].pc = IF workers[w].defined + 1 = Len(DefinitionList)
                     THEN "parse" ELSE "define"]
    /\ UNCHANGED <<pc, raised, result, log_file, binary_content, attributes>>
    /\ UNCHANGED <<segmenter_vars, facade_vars, parser_vars, sanitize_vars>>
    /\ UNCHANGED analysis_vars

\* Lines 355-356 with 443, 486, 594, 634: the parser of the next section
\* reads the class of its section; its Records are instances of that class.
\* Of the classes read, the worker keeps the constructions that made them.
WorkerParse(w) ==
    /\ workers[w].pc = "parse"
    /\ LET sec == SectionList[workers[w].parsed + 1]
       IN  workers' = [workers EXCEPT
               ![w].makers = @ \cup {get_tuple_definition(sec).maker},
               ![w].parsed = @ + 1,
               ![w].pc = IF workers[w].parsed + 1 = Len(SectionList)
                         THEN "constructed" ELSE "parse"]
    /\ UNCHANGED <<pc, raised, result, log_file, binary_content, attributes,
                   definitions>>
    /\ UNCHANGED <<segmenter_vars, facade_vars, parser_vars, sanitize_vars>>
    /\ UNCHANGED analysis_vars

InitWorkers ==
    /\ pc = "workers"
    /\ raised = NoException
    /\ result = <<>>
    /\ raw_sections = <<>>
    /\ parsed_sections = <<>>
    /\ call = <<>>
    /\ log_file = <<>>
    /\ binary_content = <<>>
    /\ attributes = {}
    /\ definitions = undefined_tuples
    /\ workers = [w \in Workers |->
                     [pc |-> "new", defined |-> 0, parsed |-> 0,
                      makers |-> {}]]
    /\ SegmenterIdle
    /\ ParserIdle
    /\ SanitizeIdle
    /\ AnalysisIdle

NextWorkers ==
    \E w \in Workers :
        \/ WorkerEnter(w)
        \/ WorkerDefine(w)
        \/ WorkerParse(w)

SpecWorkers == InitWorkers /\ [][NextWorkers]_vars

\* The sections whose class a worker in its parse has yet to read.
SectionsToRead(w) ==
    IF workers[w].pc = "parse"
    THEN {SectionList[i] : i \in (workers[w].parsed + 1)..Len(SectionList)}
    ELSE {}

\* C13: no step of a construction writes an entry of the class-level
\* definitions that a parse of another construction, running at the same
\* time, is still to read.
C13_NoWriteToRegistryRead ==
    [][\A w \in Workers : \A sec \in SectionsToRead(w) :
          definitions'[sec] = definitions[sec]]_vars

\* Both constructions are over, and Records of the first are instances of a
\* class the second made, as they are in no sequential run.
C13_Witness ==
    /\ workers[1].pc = "constructed"
    /\ workers[2].pc = "constructed"
    /\ workers[1].makers = {1, 2}

-----------------------------------------------------------------------------
(* The accessors of a constructed parser.                                  *)

\* Line 369, get_section_names_found: the keys of the selected view.  A dict
\* is a function here, so the list of its keys is given as their set.
get_section_names_found(raw) ==
    IF raw THEN DOMAIN raw_sections ELSE DOMAIN parsed_sections

\* Line 407, get_all_sections: the selected view itself.
get_all_sections(raw) ==
    IF raw THEN raw_sections ELSE parsed_sections

\* A caller's get_section_names_found(raw).
GetSectionNamesFound(raw) ==
    /\ pc \in {"constructed", "returned", "raised"}
    /\ call' = [method |-> "get_section_names_found", raw |-> raw]
    /\ raised' = NoException
    /\ result' = get_section_names_found(raw)
    /\ pc' = "returned"
    /\ UNCHANGED <<raw_sections, parsed_sections>>
    /\ UNCHANGED <<segmenter_vars, parser_vars, sanitize_vars>>
    /\ UNCHANGED construct_vars
    /\ UNCHANGED analysis_vars

\* A caller's get_all_sections(raw).
GetAllSections(raw) ==
    /\ pc \in {"constructed", "returned", "raised"}
    /\ call' = [method |-> "get_all_sections", raw |-> raw]
    /\ raised' = NoException
    /\ result' = get_all_sections(raw)
    /\ pc' = "returned"
    /\ UNCHANGED <<raw_sections, parsed_sections>>
    /\ UNCHANGED <<segmenter_vars, parser_vars, sanitize_vars>>
    /\ UNCHANGED construct_vars
    /\ UNCHANGED analysis_vars

\* Any accessor, with any argument.
NextAccess ==
    \/ \E section_name \in RequestedNames, raw \in BOOLEAN :
          GetSection(section_name, raw)
    \/ \E raw \in BOOLEAN : GetSectionNamesFound(raw)
    \/ \E raw \in BOOLEAN : GetAllSections(raw)

SpecAccess ==
    InitFacade /\ [][NextAccess]_vars

\* C14: a call of an accessor on a constructed parser leaves the raw-section
\* map and the parsed-section map as they are and enters no section parser,
\* whether it returns or raises; a call with the method and arguments of the
\* call before it returns, or raises, what that call did.
C14_AccessorsReadOnly ==
    [][/\ raw_sections' = raw_sections
       /\ parsed_sections' = parsed_sections
       /\ pc' \in {"returned", "raised"}
       /\ UNCHANGED <<segmenter_vars, parser_vars, sanitize_vars>>
       /\ (pc # "constructed" /\ call' = call)
             => (result' = result /\ raised' = raised)]_vars

\* A lookup in the raw view has failed, and every section the construction
\* stored is still in both views.
C14_Witness ==
    /\ pc = "raised"
    /\ raised.type = "SectionNotFound"
    /\ call.section_name = <<"Z", "e", "d">>
    /\ call.raw
    /\ result = None
    /\ FOO_BAR \in DOMAIN raw_sections
    /\ DOMAIN parsed_sections = {Canonical(s) : s \in Sections}

-----------------------------------------------------------------------------
(* Claims about the lines the segmenter takes as headers.                  *)

\* A line that is, as a whole, one or more word or space characters and
\* then a colon.
WholeLineHeader(line) ==
    /\ Len(line) >= 2
    /\ line[Len(line)] = ":"
    /\ \A k \in 1..(Len(line) - 1) : line[k] \in WordChars \cup WhiteSpace

\* The line the loop has just worked on.
LastLine ==
    contents[Len(contents)]

StoredLines ==
    UNION {{<<name, k>> : k \in 1..Len(sections[name])} : name \in DOMAIN sections}

\* C15: the segmenter takes a line as a header if and only if the whole line
\* is word or space characters and then a colon: after such a line the
\* section it names is open and empty, and any other line, one with text
\* after the colon among them, is the last line of the section that was
\* open, or is dropped when none was.
C15_HeaderIffWholeLine ==
    (pc = "segmenting" /\ contents # <<>>)
        => IF WholeLineHeader(LastLine)
           THEN /\ current_section = SubSeq(LastLine, 1, Len(LastLine) - 1)
                /\ sections[current_section] = <<>>
           ELSE current_section # None
                   => /\ sections[current_section] # <<>>
                      /\ sections[current_section][Len(sections[current_section])]
                             = Strip(LastLine)

\* A line with text after its colon has opened a section of its own, and
\* is in no section's lines.
C15_Witness ==
    /\ pc = "segmenting"
    /\ contents = <<<<"a", "b", ":">>, <<"a">>, <<"A", " ", "b", ":">>,
                    <<"a", "b", ":", " ", "a">>>>
    /\ current_section = <<"a", "b">>
    /\ sections[<<"a", "b">>] = <<>>
    /\ sections[<<"A", " ", "b">>] = <<>>


\* The header lines of the input read so far, as the segmenter's pattern
\* takes them.
HeaderIndexes ==
    {i \in 1..Len(contents) : IsSectionHeader(contents[i])}

\* The names whose header the input holds more than once.
RepeatedNames ==
    {name \in HeaderNamesSeen :
        Cardinality({i \in HeaderIndexes : SectionName(contents[i]) = name}) >= 2}

\* The header line that governs line i: the last header line before it, or 0.
HeaderBefore(i) ==
    Max({h \in HeaderIndexes : h < i} \cup {0})

\* The lines that follow the last occurrence of the header of some section,
\* up to the next header or the end of the input.
LinesOfLastOccurrences ==
    {i \in 1..Len(contents) \ HeaderIndexes :
        /\ HeaderBefore(i) # 0
        /\ HeaderBefore(i) = LastHeaderOf(SectionName(contents[HeaderBefore(i)]))}

\* C16: when the input holds the header of a section more than once, the
\* entry of the section holds the lines that follow the last occurrence of
\* the header, up to the next header or the end of the input, and only
\* those; the lines that followed an earlier occurrence are in no section,
\* so the sections hold as many lines as follow last occurrences.
C16_LastOccurrenceOnly ==
    RepeatedNames # {}
        => /\ \A name \in RepeatedNames :
                 /\ name \in DOMAIN sections
                 /\ Len(sections[name])
                        = NextHeaderAfter(LastHeaderOf(name)) - LastHeaderOf(name) - 1
                 /\ \A k \in 1..Len(sections[name]) :
                        sections[name][k] = Strip(contents[LastHeaderOf(name) + k])
           /\ Cardinality(StoredLines) = Cardinality(LinesOfLastOccurrences)

\* A header, a line, the header again and another line have been read: the
\* section holds the second line only.
C16_Witness ==
    /\ contents = <<<<"a", "b", ":">>, <<"a">>, <<"a", "b", ":">>, <<"a", "a">>>>
    /\ sections = (<<"a", "b">> :> <<<<"a", "a">>>>)


\* C17: at every step of the pass, a line that is not a header is appended
\* to the section the last header before it opened and every other section
\* stays as it is; before the first header it is stored nowhere; a header
\* line empties the section it names, leaves the others as they are and is
\* itself stored in no section.
C17_AppendedToCurrentSectionOnly ==
    [][(pc = "segmenting" /\ Len(contents') = Len(contents) + 1)
        => LET line == contents'[Len(contents')]
               h    == HeaderBefore(Len(contents'))
           IN  IF IsSectionHeader(line)
               THEN /\ DOMAIN sections' = DOMAIN sections \cup {SectionName(line)}
                    /\ sections'[SectionName(line)] = <<>>
                    /\ \A name \in DOMAIN sections \ {SectionName(line)} :
                          sections'[name] = sections[name]
               ELSE IF h = 0
               THEN sections' = sections /\ sections = <<>>
               ELSE /\ DOMAIN sections' = DOMAIN sections
                    /\ sections'[SectionName(contents[h])]
                          = Append(sections[SectionName(contents[h])], Strip(line))
                    /\ \A name \in DOMAIN sections \ {SectionName(contents[h])} :
                          sections'[name] = sections[name]]_vars

\* A line before the first header, two headers and a line after them: the
\* line is in the section of the second header only.
C17_Witness ==
    /\ contents = <<<<"a", "a">>, <<"a", "b", ":">>, <<"A", " ", "b", ":">>, <<" ", "a">>>>
    /\ sections = (<<"a", "b">> :> <<>>) @@ (<<"A", " ", "b">> :> <<<<"a">>>>)

-----------------------------------------------------------------------------
(* Claims about the delimiters of the call stack section.                  *)

\* The lines of the section read so far that are no delimiter and have
\* delimiters before them in a number of the set.
LinesReadAfter(counts) ==
    {j \in 1..index :
        /\ ~is_table_delimiter(raw_data[j])
        /\ Cardinality({m \in DelimiterLines : m < j}) \in counts}

\* C18 as the specification states it: once the third delimiter has been
\* read, every later line that is no delimiter is a frame, after a fourth
\* delimiter too.
C18_FramesOnceCountReachedThree ==
    pc = "stack_loop"
        => Len(parsed_data.stack) = Cardinality(LinesReadAfter(3..Len(raw_data)))

\* C18 (amended): while the parse runs, the frames are the lines read between
\* the third and the fourth delimiter; a line after a fourth delimiter adds
\* no frame and stops nothing.
C18_FramesOnlyWhileCountIsThree ==
    /\ pc = "stack_loop"
          => Len(parsed_data.stack) = Cardinality(LinesReadAfter({3}))
    /\ (pc = "raised" /\ raised.type = "TypeError")
          => Cardinality({m \in DelimiterLines : m <= index}) = 3

\* A frame row after the fourth delimiter has been read: there is no frame.
C18_Witness ==
    /\ pc = "stack_loop"
    /\ index = 5
    /\ \A j \in 1..4 : is_table_delimiter(raw_data[j])
    /\ raw_data[5] = FrameRow
    /\ table_delimiter_count = 4
    /\ parsed_data.stack = <<>>

\* Column delimiters, if any, and then at least n dashes, from the start of
\* the line.
PipesThenDashes(line, n) ==
    \E p \in 0..Len(line) :
        /\ \A k \in 1..p : line[k] = COLUMN_DELIMITER
        /\ p + n <= Len(line)
        /\ \A k \in (p + 1)..(p + n) : line[k] = "-"

\* C19 as the specification states it: a line advances the count of
\* delimiters if and only if it begins with column delimiters, if any, and
\* then at least twenty dashes.
C19_DelimiterIffTwentyDashes ==
    [][(pc = "stack_loop" /\ index' = index + 1)
          => (table_delimiter_count' = table_delimiter_count + 1
                 <=> PipesThenDashes(raw_data[index'], 20))]_vars

\* C19 (amended): a line advances the count of delimiters if and only if it
\* begins with column delimiters, if any, and then at least twelve dashes;
\* any other line leaves the count as it is.
C19_DelimiterIffTwelveDashes ==
    [][(pc = "stack_loop" /\ index' = index + 1)
          => /\ table_delimiter_count' = table_delimiter_count + 1
                    <=> PipesThenDashes(raw_data[index'], DelimiterDashes)
             /\ table_delimiter_count' \in
                    {table_delimiter_count, table_delimiter_count + 1}]_vars

\* A run of thirteen dashes has been counted, and a run of eleven has not.
C19_Witness ==
    /\ pc = "stack_loop"
    /\ index = 2
    /\ raw_data[1] = Dashes(DelimiterDashes + 1)
    /\ raw_data[2] = Dashes(DelimiterDashes - 1)
    /\ table_delimiter_count = 1

-----------------------------------------------------------------------------
(* Claims about the strip of the illegal characters.                       *)

IllegalCharacters ==
    Range(illegal_varible_name_characters)

\* The string with a space in the place of every illegal character.
EachIllegalAsSpace(string) ==
    [i \in 1..Len(string) |->
        IF string[i] \in IllegalCharacters THEN " " ELSE string[i]]

\* C20: the strip of the illegal characters ends without an error for every
\* label, and what it returns is the label with one space in the place of
\* every illegal character and every other character as it was, trimmed; it
\* holds no illegal character.
C20_EveryIllegalCharacterBecomesOneSpace ==
    (passes = 1 /\ pc \in {"stripped", "raised"})
        => /\ pc = "stripped"
           /\ attribute = Strip(EachIllegalAsSpace(Lower(Strip(label))))
           /\ Range(attribute) \cap IllegalCharacters = {}

\* The strip of a label with a star has raised re.error.
C20_Witness ==
    /\ pc = "raised"
    /\ passes = 1
    /\ label = <<"i", "*", "D">>
    /\ raised.type = "re.error"

-----------------------------------------------------------------------------
(* Claims about the lines the table parser skips.                          *)

HasPipe(line) ==
    COLUMN_DELIMITER \in Range(line)

\* The lines among the first j that hold a column delimiter and come after
\* two lines that hold none.
RowsAfterTwoPipelessUpTo(j) ==
    {m \in 1..j :
        /\ HasPipe(raw_data[m])
        /\ Cardinality({n \in 1..(m - 1) : ~HasPipe(raw_data[n])}) >= 2}

-----------------------------------------------------------------------------
(* Claims about Network lines of different lengths.                        *)

\* The lines of the section that match the key/value pattern.
MatchedLines ==
    {j \in 1..Len(raw_data) : data_line_match(raw_data[j]).matched}

\* The number of values of a matched line.
ValueCount(j) ==
    Len(network_results(data_line_match(raw_data[j]).data))

\* Every field of the Network schema has its line, and no line names
\* anything else.
EveryNetworkFieldHasItsLine ==
    {NetworkName(raw_data[j]) : j \in MatchedLines} = Range(elements(NETWORK))

\* C22: when the attribute lines of the Network section carry different
\* numbers of values, the parse still returns, with as many Records as the
\* line matched last has values.
C22_DifferentLengthsStillReturn ==
    (/\ Finished
     /\ section = NETWORK
     /\ section \in DOMAIN raw_sections
     /\ EveryNetworkFieldHasItsLine
     /\ \E j, m \in MatchedLines : ValueCount(j) # ValueCount(m))
        => /\ pc = "returned"
           /\ Len(result) = ValueCount(Max(MatchedLines))

\* Every field has its line, the first line has one value and the others
\* two: the parse has raised IndexError.
C22_Witness ==
    /\ pc = "raised"
    /\ raised.type = "IndexError"
    /\ section = NETWORK
    /\ EveryNetworkFieldHasItsLine
    /\ Len(raw_data) = Len(NetworkLabels)
    /\ ValueCount(1) = 1
    /\ \A j \in 2..Len(raw_data) : ValueCount(j) = 2

-----------------------------------------------------------------------------
(* Claims about the lines of a general section.                            *)

\* C23: every line that matches the key/value pattern adds its value,
\* trimmed, under its sanitized label, label and value parted at the first
\* colon after the ordinal, and the parse goes on; a line that does not
\* match changes nothing.
C23_MatchingLinesContribute ==
    [][(pc = "general_loop" /\ index' = index + 1)
          => LET match == data_line_match(raw_data[index'])
             IN  IF match.matched
                 THEN /\ pc' = "general_loop"
                      /\ ":" \notin Range(match.attribute)
                      /\ data_dict' = DictPut(data_dict,
                                              sanitize(match.attribute, section).value,
                                              Strip(match.data))
                 ELSE /\ pc' = "general_loop"
                      /\ data_dict' = data_dict]_vars

\* The line "2.2 (x): 1" matches the pattern, and its label has stopped the
\* parse with re.error: no Record.
C23_Witness ==
    /\ pc = "raised"
    /\ raised.type = "re.error"
    /\ index >= 1
    /\ raw_data[index] = DataLine(<<"2", ".", "2">>, <<"(", "x", ")">>, <<>>, <<"1">>)
    /\ data_line_match(raw_data[index]).matched
    /\ result = <<>>


\* C24: for a section whose schema has no field the general parser returns
\* the empty Record at once: it raises nothing, reads no line of the raw
\* section and stores nothing, whatever the section holds and whether or
\* not the input has its header.
C24_NoFieldsReturnsEmptyRecord ==
    (section \in GeneralSections \ SectionsWithFields /\ pc # "general")
        => /\ pc = "returned"
           /\ raised = NoException
           /\ result = <<>>
           /\ raw_data = <<>>
           /\ index = 0
           /\ data_dict = <<>>

\* The parse of Registers has returned for an input without that header.
C24_Witness ==
    /\ pc = "returned"
    /\ section = REGISTERS
    /\ raw_sections = <<>>
    /\ result = <<>>

-----------------------------------------------------------------------------
(* Claims about the parsed-section map of a construction.                  *)

\* The strategy the specification gives each section of the registry.
StrategyOf(sec) ==
    CASE sec \in {EXCEPTION, ACTIVE_CONTROLS, COMPUTER, USER, APPLICATION,
                  OPERATING_SYSTEM, REGISTERS, ASSEMBLER_INFORMATION} -> "general"
      [] sec \in {MODULES, PROCESSES_INFORMATION} -> "table"
      [] sec = CALL_STACK_INFORMATION -> "stack"
      [] sec = NETWORK -> "network"

\* A Record of the section: a value for each of its fields.
IsRecordOf(sec, record) ==
    DOMAIN record = Range(elements(sec))

\* What the strategy of a section returns.
IsResultOf(sec, value) ==
    CASE StrategyOf(sec) = "general" -> IsRecordOf(sec, value)
      [] StrategyOf(sec) \in {"table", "network"} ->
            /\ DOMAIN value = 1..Len(value)
            /\ \A n \in 1..Len(value) : IsRecordOf(sec, value[n])
      [] StrategyOf(sec) = "stack" ->
            /\ DOMAIN value = {"summary", "stack"}
            /\ \A n \in 1..Len(value.stack) : IsRecordOf(sec, value.stack[n])

\* C25: after a construction that succeeded the parsed-section map has one
\* entry for each section of the registry, under the canonical name of the
\* section and of the kind its strategy returns; and during construction
\* each section is handed to its one strategy, once.
C25_OneEntryPerSectionByItsStrategy ==
    /\ [](pc = "constructed"
             => /\ DOMAIN parsed_sections = {Canonical(sec) : sec \in Sections}
                /\ \A sec \in Sections :
                      IsResultOf(sec, parsed_sections[Canonical(sec)]))
    /\ [][(pc = "parse" /\ pc' # "parse" /\ pc' # "constructed")
             => /\ pc' = StrategyOf(section')
                /\ Canonical(section') \notin DOMAIN sections]_vars

\* A construction from a data stream has succeeded, with a row of modules,
\* a frame and an interface.
C25_Witness ==
    /\ pc = "constructed"
    /\ binary_content \in LogStreams
    /\ Len(parsed_sections[Canonical(MODULES)]) = 1
    /\ Len(parsed_sections[Canonical(CALL_STACK_INFORMATION)].stack) = 1
    /\ Len(parsed_sections[Canonical(NETWORK)]) = 1
    /\ parsed_sections[Canonical(REGISTERS)] = <<>>


\* The sections whose parser looks its raw section up.
RequiredSections ==
    {EXCEPTION, ACTIVE_CONTROLS, COMPUTER, USER, APPLICATION, OPERATING_SYSTEM,
     NETWORK, CALL_STACK_INFORMATION, MODULES, PROCESSES_INFORMATION}

\* The section names the segmenter takes from the lines of the input.
HeadersOfInput ==
    {SectionName(contents[i]) :
        i \in {j \in 1..Len(contents) : IsSectionHeader(contents[j])}}

MissingSections ==
    {sec \in RequiredSections :
        sec \notin HeadersOfInput /\ Canonical(sec) \notin HeadersOfInput}

C27_CounterOrdersSummaryBeforeFrames ==
    /\ [](pc = "stack" => table_delimiter_count = 0)
    /\ [][ (pc = "stack" /\ pc' = "stack_loop")
              => table_delimiter_count' = 0 /\ index' = 0
                 /\ parsed_data' = [summary |-> <<>>, stack |-> <<>>] ]_vars
    /\ [][ (pc = "stack_loop" /\ index' = index + 1)
              => LET line == raw_data[index + 1]
                 IN  /\ table_delimiter_count' =
                           table_delimiter_count
                           + (IF is_table_delimiter(line) THEN 1 ELSE 0)
                     /\ parsed_data'.summary # parsed_data.summary
                           => /\ table_delimiter_count = 2
                              /\ ~is_table_delimiter(line)
                     /\ parsed_data'.stack # parsed_data.stack
                           => /\ table_delimiter_count = 3
                              /\ ~is_table_delimiter(line)
                     /\ parsed_data.stack # <<>>
                           => parsed_data'.summary = parsed_data.summary ]_vars
    /\ [][ pc = "stack_loop" /\ index' = index
              => parsed_data' = parsed_data
                 /\ table_delimiter_count' = table_delimiter_count ]_vars

\* A section of two delimiters, a line of the summary, the third delimiter
\* and a frame row has been scanned: the counter is 3, and the result holds
\* the summary and one frame.
C27_Witness ==
    /\ pc = "returned"
    /\ section = CALL_STACK_INFORMATION
    /\ Len(raw_data) = 5
    /\ table_delimiter_count = 3
    /\ result.summary = <<"s", "u", "m", "\n">>
    /\ Len(result.stack) = 1

\* C28: for a data stream that is not empty and does not hold the anchor,
\* _process_data_stream does not raise and does not keep the stream: the
\* lines handed to the segmenter are one line, the last character of the
\* stream.  The segmenter stores nothing of it, and the construction goes on
\* to the section parsers, where alone it can end (SectionNotFound, C26).
C28_NoAnchorLeavesLastCharacter ==
    (/\ log_file = <<>>
     /\ binary_content # <<>>
     /\ pc \notin {"new", "source"}
     /\ ~HasAnchor(binary_content))
        => /\ "_contents" \in attributes
           /\ contents = << <<binary_content[Len(binary_content)]>> >>
           /\ pc = "segment" => sections = <<>> /\ current_section = None
           /\ "_raw_sections" \in attributes => raw_sections = <<>>
           /\ pc = "raised" => /\ "_raw_sections" \in attributes
                               /\ raised.type = "SectionNotFound"

\* A stream of a header line and a line of text, without the anchor: only
\* the "x" at its end was handed on, and no section came of it.
C28_Witness ==
    /\ binary_content = <<"a", "b", ":">> \o SEPARATOR \o <<"x">>
    /\ log_file = <<>>
    /\ contents = << <<"x">> >>
    /\ "_raw_sections" \in attributes
    /\ raw_sections = <<>>
    /\ pc = "raised"

-----------------------------------------------------------------------------
(* The registry against the label pipeline: the pipeline of                *)
(* _parse_general_section run on labels that are field names and reserved  *)
(* names of ELFDataTuples.definitions.                                      *)

FieldNames ==
    UNION {Range(elements(sec)) : sec \in Sections}

ReservedNames ==
    UNION {reserved_names(sec) : sec \in Sections}

\* The labels of a log that spells its labels as the registry spells its
\* names, and the labels of SpecSanitize.
RegistryLabels ==
    FieldNames \cup ReservedNames \cup Labels

InitRegistry ==
    /\ pc = "label"
    /\ raised = NoException
    /\ label \in RegistryLabels
    /\ attribute = <<>>
    /\ passes = 1
    /\ section \in GeneralSections \cap SectionsWithFields
    /\ raw_data = <<>>
    /\ index = 0
    /\ parsed_data = <<>>
    /\ header_delimiter_row = 0
    /\ table_delimiter_count = 0
    /\ temp_data = <<>>
    /\ number_of_interfaces = 0
    /\ data_dict = <<>>
    /\ raw_sections = <<>>
    /\ parsed_sections = <<>>
    /\ call = <<>>
    /\ result = <<>>
    /\ SegmenterIdle
    /\ ConstructIdle
    /\ AnalysisIdle

SpecRegistry ==
    InitRegistry /\ [][NextSanitize]_vars

\* A name the pipeline leaves as it is: lowercase, without white space and
\* without an illegal character, and sanitize gives it back.
IsFixedPoint(name, sec) ==
    /\ Lower(name) = name
    /\ Range(name) \cap WhiteSpace = {}
    /\ Range(name) \cap Range(illegal_varible_name_characters) = {}
    /\ sanitize(name, sec) = Returned(name)

\* The label as line 609 leaves it, before the test for a reserved name.
JoinedForm(raw_label) ==
    LET first == remove_illegal_characters(Lower(Strip(raw_label)))
    IN  IF first.raised # NoException THEN None
        ELSE replace_space_with_char(first.value, <<"_">>)

\* The registry taken by itself: the field names and the reserved names of
\* every section.
FieldsAreFixedPoints ==
    \A sec \in Sections :
        /\ \A f \in Range(elements(sec)) : IsFixedPoint(f, sec)
        /\ \A r \in reserved_names(sec) :
              /\ r \o <<"_">> \in Range(elements(sec))
              /\ r \notin Range(elements(sec))

\* C29: in every section of the registry every field name is a fixed point
\* of the label pipeline, and every reserved name has its suffixed form
\* among the fields and is itself none of them; so a run of the pipeline on
\* a field name of its section ends with that name, and a run on a label
\* that comes to a reserved name ends with a field of the section.
C29_RegistryConsistent ==
    /\ FieldsAreFixedPoints
    /\ (pc = "sanitized" /\ passes = 1 /\ label \in Range(elements(section)))
          => attribute = label
    /\ (pc = "sanitized" /\ JoinedForm(label) \in reserved_names(section))
          => /\ attribute = JoinedForm(label) \o <<"_">>
             /\ attribute \in Range(elements(section))

\* The label "Type" of an Exception section has gone through the pipeline
\* and come out as the field type_, and the pipeline run on type_ itself
\* has given type_ again.
C29_Witness ==
    /\ pc = "sanitized"
    /\ passes = 2
    /\ section = EXCEPTION
    /\ label = <<"t", "y", "p", "e", "_">>
    /\ attribute = label
    /\ label \in Range(elements(section))

-----------------------------------------------------------------------------
(* ELFAnalysis (src/MDCBR/elf/elf_analysis.py): the defects grouped by the  *)
(* string made of their call stacks.  data_struct is the dict of the        *)
(* defects in its order; the defect at place i has the id i, and its entry  *)
(* is the frame list under ELFLogSections.CALL_STACK_INFORMATION.           *)

\* Line 15.
STACK_ELEMENT_DELIMITER ==
    <<",", " ">>

\* Line 57.
target_elements ==
    <<<<"p", "r", "o", "c", "e", "d", "u", "r", "e">>,
      <<"c", "l", "a", "s", "s", "n", "a", "m", "e">>,
      <<"u", "n", "i", "t">>>>

\* Line 58.
frame_delimiter ==
    <<":">>

\* Lines 92-96, _are_required_elements_defined: the targets that are fields
\* of the section are as many as the targets.
are_required_elements_defined(targets, elf_section) ==
    Cardinality(Range(targets) \cap Range(elements(elf_section))) = Len(targets)

\* Lines 62-78, _build_call_stack_proc_list: one string for each frame,
\* f"{unit}:{classname}:{procedure}"; no string when a target is no field.
build_call_stack_proc_list(call_stack) ==
    IF ~are_required_elements_defined(target_elements, CALL_STACK_INFORMATION)
    THEN <<>>
    ELSE [i \in 1..Len(call_stack) |->
             call_stack[i].unit \o frame_delimiter
                 \o call_stack[i].classname \o frame_delimiter
                 \o call_stack[i].procedure]

\* Lines 36-37: the key of a call stack.
stack_info_key(call_stack) ==
    Join(build_call_stack_proc_list(call_stack), STACK_ELEMENT_DELIMITER)

\* Lines 33-44: the loop body for the next defect of data_struct.
AssessDefect ==
    /\ pc = "assess"
    /\ index < Len(data_struct)
    /\ index' = index + 1
    /\ LET defect_id == index + 1
           key       == stack_info_key(data_struct[defect_id])
           seen      == IF key \in DOMAIN call_stacks
                        THEN call_stacks[key]
                        ELSE <<>>
       IN  call_stacks' = DictPut(call_stacks, key, Append(seen, defect_id))
    /\ UNCHANGED <<pc, raised, result, data_struct>>
    /\ UNCHANGED <<section, raw_data, parsed_data, header_delimiter_row,
                   table_delimiter_count, temp_data, number_of_interfaces,
                   data_dict>>
    /\ UNCHANGED <<segmenter_vars, facade_vars, sanitize_vars, construct_vars>>

\* Line 46: return self.call_stacks.
AssessReturn ==
    /\ pc = "assess"
    /\ index = Len(data_struct)
    /\ result' = call_stacks
    /\ pc' = "returned"
    /\ UNCHANGED raised
    /\ UNCHANGED parser_vars
    /\ UNCHANGED analysis_vars
    /\ UNCHANGED <<segmenter_vars, facade_vars, sanitize_vars, construct_vars>>

\* A frame of a call stack, by the three fields the key is made of.
Frame(u, c, p) ==
    [unit |-> u, classname |-> c, procedure |-> p]

\* Frames of plain names, of names that hold the colon (a C++ scope), and
\* of a name that holds a comma and a space.
Frames ==
    { Frame(<<"a">>, <<"a">>, <<"a">>),
      Frame(<<"a", ":", "a">>, <<"a">>, <<"a">>),
      Frame(<<"a">>, <<"a", ":", "a">>, <<"a">>),
      Frame(<<"a">>, <<"a">>, <<"a", ",", " ", "a", ":", "a", ":", "a">>) }

CallStacks ==
    Bodies(Frames, MaxFrames)

\* ELFAnalysis(data_struct): line 17-19; call_stacks is the empty dict.
InitAnalysis ==
    /\ pc = "assess"
    /\ raised = NoException
    /\ data_struct \in Bodies(CallStacks, MaxDefects)
    /\ call_stacks = <<>>
    /\ raw_sections = <<>>
    /\ parsed_sections = <<>>
    /\ call = <<>>
    /\ result = <<>>
    /\ SegmenterIdle
    /\ ParserIdle
    /\ SanitizeIdle
    /\ ConstructIdle

NextAnalysis ==
    \/ AssessDefect
    \/ AssessReturn

SpecAnalysis ==
    InitAnalysis /\ [][NextAnalysis]_vars

\* The ids of the defects of data_struct.
DefectIds ==
    1..Len(data_struct)

\* The groups returned hold every defect id in exactly one place.
GroupsPartitionDefects ==
    \A id \in DefectIds :
        Cardinality({<<key, i>> \in UNION {{key} \X (1..Len(result[key])) : key \in DOMAIN result} :
                        result[key][i] = id}) = 1

SameGroup(d, e) ==
    \E key \in DOMAIN result : {d, e} \subseteq Range(result[key])

\* As many frames, and frame by frame the same unit, classname and procedure.
SameFrames(d, e) ==
    /\ Len(data_struct[d]) = Len(data_struct[e])
    /\ \A i \in 1..Len(data_struct[d]) :
          /\ data_struct[d][i].unit = data_struct[e][i].unit
          /\ data_struct[d][i].classname = data_struct[e][i].classname
          /\ data_struct[d][i].procedure = data_struct[e][i].procedure

\* The part of C30 that holds: the groups partition the defect ids, and
\* defects with the same frames are in the same group.
GroupsPartitionAndKeepEqualStacksTogether ==
    pc = "returned"
        => /\ GroupsPartitionDefects
           /\ \A d, e \in DefectIds : SameFrames(d, e) => SameGroup(d, e)

\* C30: after one call of perform_stack_trace_assessment the groups
\* returned partition the defect ids, and two defects are in the same group
\* exactly when their call stacks have as many frames and, frame by frame,
\* the same unit, classname and procedure.
C30_GroupsAreTheClassesOfEqualStacks ==
    pc = "returned"
        => /\ GroupsPartitionDefects
           /\ \A d, e \in DefectIds : SameGroup(d, e) <=> SameFrames(d, e)

\* Two defects of one frame each, the unit a:a with the class a and the unit
\* a with the class a:a, have come back as one group under the key a:a:a:a.
C30_Witness ==
    /\ pc = "returned"
    /\ data_struct = << <<Frame(<<"a", ":", "a">>, <<"a">>, <<"a">>)>>,
                        <<Frame(<<"a">>, <<"a", ":", "a">>, <<"a">>)>> >>
    /\ result = (<<"a", ":", "a", ":", "a", ":", "a">> :> <<1, 2>>)
=============================================================================
